---- MODULE Spec2Model ----
(***************************************************************************)
(* A model of the healthcare-navigator provider search and of its natural  *)
(* language layer (src/app/services/provider_service.py and                *)
(* src/app/services/ai_service.py).                                        *)
(*                                                                         *)
(* Text is modelled by TLA+ strings; TLC evaluates Len, SubSeq and \o on   *)
(* them.  The backtick of a Markdown code fence cannot be written in a     *)
(* TLA+ string, so the character "~" stands for it (see FENCE).            *)
(***************************************************************************)
EXTENDS Integers, Sequences, FiniteSets, TLC

\* The value of an absent field (Python None).
None == "None"

(***************************************************************************)
(* Bounds of the model.                                                    *)
(***************************************************************************)
\* Largest number of vocabulary words in a procedure query.
MaxDrgWords == 2
\* Largest number of vocabulary words in a question given to the classifier.
MaxQuestionWords == 2
MaxStore == 3
\* Largest number of records in the store of a search whose centre is a
\* regional approximation.
MaxHashedStore == 1
MaxLimit == 2
MaxRows == 2

(***************************************************************************)
(* Python string operations, as the code uses them.                        *)
(***************************************************************************)
\* A text of the model holds the characters of Latin-1 as they are, and a
\* character outside Latin-1 the way Python escapes it: a backslash, a small
\* u and the four hexadecimal digits of its code, U+017F as \u017f. The
\* characters outside Latin-1 that a text of the model holds are those of
\* EscapedChars; no text of the model holds the six characters of an escape
\* as text. The classes below are the ones Python gives the characters of
\* Latin-1. Escapes occur in the completions and in what str.upper and
\* str.lower return; the questions and the procedure queries of the model
\* are texts of Latin-1.
\* The characters str.lower changes, and what it changes them to.
UpperCase == "ABCDEFGHIJKLMNOPQRSTUVWXYZÀÁÂÃÄÅÆÇÈÉÊËÌÍÎÏÐÑÒÓÔÕÖØÙÚÛÜÝÞ"
LowerCase == "abcdefghijklmnopqrstuvwxyzàáâãäåæçèéêëìíîïðñòóôõöøùúûüýþ"
\* The decimal digits: what \d of re matches.
DigitChars == "0123456789"
\* The characters for which str.isdigit holds.
IsdigitChars == "0123456789²³¹"
\* The other characters that \w of re matches, the underscore apart.
OtherWordChars == "ª²³µ¹º¼½¾ßÿ"
\* Whitespace for str.strip, str.split and \s of re: space, newline, tab,
\* carriage return, form feed, vertical tab, the separators 1C to 1F, next
\* line and no-break space.
SpaceChars == " \n\t\r\f "

CharAt(s, i) == SubSeq(s, i, i)
\* The Python slice s[i-1:j]: positions i to j, cut to the text.
Slice(s, i, j) ==
    IF i > j \/ i > Len(s) THEN "" ELSE SubSeq(s, i, IF j > Len(s) THEN Len(s) ELSE j)
From(s, i) == SubSeq(s, i, Len(s))
CharIn(c, alphabet) == \E i \in 1..Len(alphabet) : CharAt(alphabet, i) = c
IndexIn(c, alphabet) == CHOOSE i \in 1..Len(alphabet) : CharAt(alphabet, i) = c

\* The characters outside Latin-1 that str.upper or str.lower turns into a
\* text with a character of Latin-1 in it, the ones they make from the
\* characters of Latin-1, and the characters those texts hold.
EscapedChars ==
    { "\\u0130", "\\u0131", "\\u0149", "\\u0178", "\\u017f", "\\u01f0",
      "\\u02bc", "\\u02be", "\\u0307", "\\u0308", "\\u030a", "\\u030c",
      "\\u0331", "\\u039c", "\\u03bc", "\\u1e96", "\\u1e97", "\\u1e98",
      "\\u1e99", "\\u1e9a", "\\u1e9e", "\\u212a", "\\u212b", "\\ufb00",
      "\\ufb01", "\\ufb02", "\\ufb03", "\\ufb04", "\\ufb05", "\\ufb06" }
HexDigits == "0123456789abcdef"
\* An escape starts at position i of s.
IsEscapeAt(s, i) ==
    /\ i + 5 <= Len(s)
    /\ SubSeq(s, i, i + 1) = "\\u"
    /\ \A k \in (i + 2)..(i + 5) : CharIn(CharAt(s, k), HexDigits)
\* The character at position i of s: one character of Latin-1 or an escape.
CharFrom(s, i) == IF IsEscapeAt(s, i) THEN SubSeq(s, i, i + 5) ELSE CharAt(s, i)

\* str.lower of a character. Of the characters outside Latin-1, the capital
\* I with a dot becomes an i and a combining dot, and the Kelvin and
\* Angstrom signs become the letters k and a with a ring.
LowerOfEscaped ==
    (   "\\u0130" :> "i\\u0307"
        @@ "\\u0178" :> "ÿ"
        @@ "\\u039c" :> "\\u03bc"
        @@ "\\u1e9e" :> "ß"
        @@ "\\u212a" :> "k"
        @@ "\\u212b" :> "å" )
LowerOf ==
    [c \in {CharAt(UpperCase, i) : i \in 1..Len(UpperCase)} |->
        CharAt(LowerCase, IndexIn(c, UpperCase))]
lowerChar(c) ==
    IF c \in DOMAIN LowerOfEscaped THEN LowerOfEscaped[c]
    ELSE IF c \in DOMAIN LowerOf THEN LowerOf[c] ELSE c
\* str.upper of a character. The sharp s becomes two letters, and the
\* capitals of the y with diaeresis and of the micro sign are U+0178 and
\* U+039C. Of the characters outside Latin-1, the long s becomes S, the
\* dotless i becomes I, and a ligature becomes its letters.
UpperOfEscaped ==
    (   "\\u0131" :> "I"
        @@ "\\u0149" :> "\\u02bcN"
        @@ "\\u017f" :> "S"
        @@ "\\u01f0" :> "J\\u030c"
        @@ "\\u03bc" :> "\\u039c"
        @@ "\\u1e96" :> "H\\u0331"
        @@ "\\u1e97" :> "T\\u0308"
        @@ "\\u1e98" :> "W\\u030a"
        @@ "\\u1e99" :> "Y\\u030a"
        @@ "\\u1e9a" :> "A\\u02be"
        @@ "\\ufb00" :> "FF"
        @@ "\\ufb01" :> "FI"
        @@ "\\ufb02" :> "FL"
        @@ "\\ufb03" :> "FFI"
        @@ "\\ufb04" :> "FFL"
        @@ "\\ufb05" :> "ST"
        @@ "\\ufb06" :> "ST" )
UpperOf ==
    [c \in {CharAt(LowerCase, i) : i \in 1..Len(LowerCase)} |->
        CharAt(UpperCase, IndexIn(c, LowerCase))]
upperChar(c) ==
    IF c = "ß" THEN "SS"
    ELSE IF c = "ÿ" THEN "\\u0178"
    ELSE IF c = "µ" THEN "\\u039c"
    ELSE IF c \in DOMAIN UpperOfEscaped THEN UpperOfEscaped[c]
    ELSE IF c \in DOMAIN UpperOf THEN UpperOf[c] ELSE c

RECURSIVE str_lower(_)
str_lower(s) ==
    IF s = "" THEN ""
    ELSE lowerChar(CharFrom(s, 1)) \o str_lower(From(s, Len(CharFrom(s, 1)) + 1))

RECURSIVE str_upper(_)
str_upper(s) ==
    IF s = "" THEN ""
    ELSE upperChar(CharFrom(s, 1)) \o str_upper(From(s, Len(CharFrom(s, 1)) + 1))

\* sub in s
str_contains(s, sub) ==
    \E i \in 1..(Len(s) - Len(sub) + 1) : SubSeq(s, i, i + Len(sub) - 1) = sub

str_startswith(s, prefix) ==
    Len(prefix) <= Len(s) /\ SubSeq(s, 1, Len(prefix)) = prefix

\* s.isdigit(): not empty and every character a digit
str_isdigit(s) ==
    s # "" /\ \A i \in 1..Len(s) : CharIn(CharAt(s, i), IsdigitChars)

IsSpace(c) == CharIn(c, SpaceChars)

RECURSIVE str_lstrip(_)
str_lstrip(s) == IF s # "" /\ IsSpace(CharAt(s, 1)) THEN str_lstrip(From(s, 2)) ELSE s

RECURSIVE str_rstrip(_)
str_rstrip(s) ==
    IF s # "" /\ IsSpace(CharAt(s, Len(s))) THEN str_rstrip(SubSeq(s, 1, Len(s) - 1)) ELSE s

str_strip(s) == str_rstrip(str_lstrip(s))

\* The length of the run of non-whitespace characters s starts with.
RECURSIVE WordLen(_)
WordLen(s) == IF s = "" \/ IsSpace(CharAt(s, 1)) THEN 0 ELSE 1 + WordLen(From(s, 2))

\* s.split(): the maximal runs of non-whitespace characters, in order
RECURSIVE str_split(_)
str_split(s) ==
    LET t == str_lstrip(s)
        n == WordLen(t)
    IN  IF t = "" THEN << >> ELSE <<SubSeq(t, 1, n)>> \o str_split(From(t, n + 1))

\* s.replace(c, ''): s without its occurrences of the character c
RECURSIVE str_remove(_, _)
str_remove(s, c) ==
    IF s = "" THEN ""
    ELSE (IF CharAt(s, 1) = c THEN "" ELSE CharAt(s, 1)) \o str_remove(From(s, 2), c)

\* s.split(c)[0]: s up to its first occurrence of the character c
RECURSIVE str_before(_, _)
str_before(s, c) ==
    IF s = "" \/ CharAt(s, 1) = c THEN "" ELSE CharAt(s, 1) \o str_before(From(s, 2), c)

\* re.search on the patterns of the model. A pattern is a sequence of
\* pieces: a literal text, one whitespace character (\s), a run of one or
\* more whitespace characters (\s+), or any run of characters other than a
\* newline (.*).  re_match is the match at the start of the text.
Lit(text) == [kind |-> "lit", text |-> text]
OneSpace == [kind |-> "space", text |-> ""]
Spaces == [kind |-> "spaces", text |-> ""]
AnyRun == [kind |-> "any", text |-> ""]
RECURSIVE re_match(_, _)
re_match(txt, pieces) ==
    IF pieces = << >> THEN TRUE
    ELSE LET piece == Head(pieces)
             rest == Tail(pieces)
         IN  IF piece.kind = "lit"
             THEN /\ str_startswith(txt, piece.text)
                  /\ re_match(From(txt, Len(piece.text) + 1), rest)
             ELSE IF piece.kind = "space"
             THEN txt # "" /\ IsSpace(CharAt(txt, 1)) /\ re_match(From(txt, 2), rest)
             ELSE IF piece.kind = "spaces"
             THEN \E n \in 1..Len(txt) :
                      /\ \A i \in 1..n : IsSpace(CharAt(txt, i))
                      /\ re_match(From(txt, n + 1), rest)
             ELSE \E n \in 0..Len(txt) :
                      /\ \A i \in 1..n : CharAt(txt, i) # "\n"
                      /\ re_match(From(txt, n + 1), rest)
re_search(txt, pieces) == \E k \in 1..(Len(txt) + 1) : re_match(From(txt, k), pieces)

(***************************************************************************)
(* The data store's text matching: SQL LIKE, where % matches any run of    *)
(* characters, _ any one character and a backslash makes the character     *)
(* after it stand for itself (PostgreSQL's default escape), and ILIKE, its *)
(* case-insensitive form.                                                  *)
(***************************************************************************)
ESCAPE == "\\"
LIKE_TRUE == "LIKE_TRUE"
LIKE_FALSE == "LIKE_FALSE"
LIKE_ABORT == "LIKE_ABORT"
LIKE_ERROR == "LIKE_ERROR"

\* The data store's matcher, step for step: it walks text and pattern
\* together; after a % it skips the % and _ that follow and tries the rest of
\* the pattern at each place of the text that starts with the pattern's next
\* character, giving up (LIKE_ABORT) when the text ends first.  It raises
\* ("LIKE pattern must not end with escape character", LIKE_ERROR) when it
\* comes to a backslash that ends the pattern.
RECURSIVE MatchText(_, _)
RECURSIVE AfterPercent(_, _)
RECURSIVE ScanText(_, _)
MatchText(t, p) ==
    IF t = "" \/ p = ""
    THEN IF t # "" THEN LIKE_FALSE
         ELSE IF \A i \in 1..Len(p) : CharAt(p, i) = "%" THEN LIKE_TRUE ELSE LIKE_ABORT
    ELSE IF CharAt(p, 1) = ESCAPE
    THEN IF Len(p) < 2 THEN LIKE_ERROR
         ELSE IF CharAt(p, 2) # CharAt(t, 1) THEN LIKE_FALSE
         ELSE MatchText(From(t, 2), From(p, 3))
    ELSE IF CharAt(p, 1) = "%" THEN AfterPercent(t, From(p, 2))
    ELSE IF CharAt(p, 1) = "_" \/ CharAt(p, 1) = CharAt(t, 1)
    THEN MatchText(From(t, 2), From(p, 2))
    ELSE LIKE_FALSE
AfterPercent(t, p) ==
    IF p = "" THEN LIKE_TRUE
    ELSE IF CharAt(p, 1) = "%" THEN AfterPercent(t, From(p, 2))
    ELSE IF CharAt(p, 1) = "_"
    THEN IF t = "" THEN LIKE_ABORT ELSE AfterPercent(From(t, 2), From(p, 2))
    ELSE IF p = ESCAPE THEN LIKE_ERROR
    ELSE ScanText(t, p)
ScanText(t, p) ==
    IF t = "" THEN LIKE_ABORT
    ELSE LET firstpat == IF CharAt(p, 1) = ESCAPE THEN CharAt(p, 2) ELSE CharAt(p, 1)
             matched == IF CharAt(t, 1) = firstpat THEN MatchText(t, p) ELSE LIKE_FALSE
         IN  IF matched # LIKE_FALSE THEN matched ELSE ScanText(From(t, 2), p)

sql_like(txt, pat) == MatchText(txt, pat) = LIKE_TRUE
sql_like_raises(txt, pat) == MatchText(txt, pat) = LIKE_ERROR

sql_ilike(txt, pat) == sql_like(str_lower(txt), str_lower(pat))

(***************************************************************************)
(* ProviderService: the procedure matcher.                                 *)
(***************************************************************************)
PROCEDURE_SYNONYMS ==
    [ knee      |-> <<"knee", "joint", "orthopedic", "replacement", "arthroplasty">>,
      hip       |-> <<"hip", "joint", "replacement", "orthopedic", "arthroplasty">>,
      heart     |-> <<"heart", "cardiac", "cardiovascular", "coronary", "cardiology">>,
      cardiac   |-> <<"heart", "cardiac", "cardiovascular", "coronary", "cardiology">>,
      surgery   |-> <<"surgery", "surgical", "procedure", "operation">>,
      emergency |-> <<"emergency", "urgent", "trauma", "critical">>,
      kidney    |-> <<"kidney", "renal", "nephrology", "dialysis">>,
      liver     |-> <<"liver", "hepatic", "hepatology">>,
      lung      |-> <<"lung", "pulmonary", "respiratory", "pneumonia">>,
      brain     |-> <<"brain", "neurological", "neurology", "cranial">>,
      spine     |-> <<"spine", "spinal", "vertebral", "back">>,
      cancer    |-> <<"cancer", "oncology", "tumor", "malignancy", "chemotherapy">> ]

\* One condition on ms_drg_definition: column ILIKE pattern, or
\* column.contains(x), which is column LIKE '%' || x || '%'.
Ilike(pattern) == [op |-> "ilike", pattern |-> pattern]
ContainsCond(x) == [op |-> "like", pattern |-> "%" \o x \o "%"]

RECURSIVE SynonymConds(_)
SynonymConds(syns) ==
    IF syns = << >> THEN << >>
    ELSE <<Ilike("%" \o Head(syns) \o "%")>> \o SynonymConds(Tail(syns))

\* The conditions one word of a text query adds.
WordConds(word) ==
    IF Len(word) > 2
    THEN <<Ilike("%" \o word \o "%")>>
         \o (IF word \in DOMAIN PROCEDURE_SYNONYMS
             THEN SynonymConds(PROCEDURE_SYNONYMS[word]) ELSE << >>)
         \o (IF Len(word) > 4
             THEN <<Ilike("%" \o SubSeq(word, 1, 4) \o "%")>> ELSE << >>)
    ELSE << >>

RECURSIVE WordsConds(_)
WordsConds(words) ==
    IF words = << >> THEN << >> ELSE WordConds(Head(words)) \o WordsConds(Tail(words))

\* The code's numeric branch: three patterns on the code.
NumericConds(drg) == <<Ilike(drg \o " %"), Ilike(drg \o "-%"), ContainsCond(drg)>>

_build_drg_conditions(drg) ==
    LET drg_lower == str_strip(str_lower(drg))
    IN  IF str_isdigit(drg) THEN NumericConds(drg)
        ELSE WordsConds(str_split(drg_lower))

\* Whether a procedure description satisfies one condition.
CondHolds(definition, cond) ==
    IF cond.op = "ilike" THEN sql_ilike(definition, cond.pattern)
    ELSE sql_like(definition, cond.pattern)

\* or_(*drg_conditions) on a description
OrHolds(definition, conds) ==
    \E i \in 1..Len(conds) : CondHolds(definition, conds[i])

\* Whether the match of a description against one of the conditions raises.
FilterRaises(definition, conds) ==
    \E i \in 1..Len(conds) :
        IF conds[i].op = "ilike"
        THEN sql_like_raises(str_lower(definition), str_lower(conds[i].pattern))
        ELSE sql_like_raises(definition, conds[i].pattern)

\* The WHERE clause search_providers builds: the OR of the conditions when
\* there is one, no filter at all otherwise.
DrgFilter(definition, conds) ==
    IF conds # << >> THEN OrHolds(definition, conds) ELSE TRUE

(***************************************************************************)
(* Numbers.  A coordinate is the decimal text of its double ("40.7505"),   *)
(* so that every double the store can hold has a name; None is an absent   *)
(* coordinate.  A rating is held in tenths or hundredths of a point, a     *)
(* distance in hundredths of a kilometre; a score is a double.             *)
(***************************************************************************)
\* Python truthiness of an optional float: None and 0.0 are false.
Truthy(x) == x # None /\ x # "0.0" /\ x # "-0.0"
\* None in a numeric field (no number of the store is negative), and Python
\* truthiness of an optional number: None and 0 are false.
NoNumber == -1
TruthyNum(n) == n # NoNumber /\ n # 0

Max2(a, b) == IF a >= b THEN a ELSE b
Min2(a, b) == IF a <= b THEN a ELSE b

(***************************************************************************)
(* ProviderService: the Geo-Resolver.                                      *)
(***************************************************************************)
ZIP_COORDINATES ==
    "10001" :> <<"40.7505", "-73.9934">> @@ "10002" :> <<"40.7156", "-73.9877">> @@ "10003" :> <<"40.7318", "-73.9884">>
    @@ "10004" :> <<"40.6892", "-73.9823">> @@ "10005" :> <<"40.7062", "-74.0087">> @@ "10006" :> <<"40.7093", "-74.0132">>
    @@ "10007" :> <<"40.7133", "-74.007">> @@ "10009" :> <<"40.7264", "-73.9786">> @@ "10010" :> <<"40.7392", "-73.9817">>
    @@ "10011" :> <<"40.7403", "-73.9965">> @@ "10012" :> <<"40.7258", "-73.9986">> @@ "10013" :> <<"40.7197", "-74.0026">>
    @@ "10014" :> <<"40.7342", "-74.0063">> @@ "10016" :> <<"40.7453", "-73.9781">> @@ "10017" :> <<"40.752", "-73.9717">>
    @@ "10018" :> <<"40.7549", "-73.9925">> @@ "10019" :> <<"40.7663", "-73.9896">> @@ "10021" :> <<"40.7697", "-73.954">>
    @@ "10022" :> <<"40.759", "-73.9719">> @@ "10023" :> <<"40.7756", "-73.9822">> @@ "10024" :> <<"40.7876", "-73.9754">>
    @@ "10025" :> <<"40.7982", "-73.9665">> @@ "10026" :> <<"40.802", "-73.9532">> @@ "10027" :> <<"40.8115", "-73.9534">>
    @@ "10028" :> <<"40.7774", "-73.9533">> @@ "10029" :> <<"40.7917", "-73.9439">> @@ "10030" :> <<"40.82", "-73.9425">>
    @@ "10031" :> <<"40.8251", "-73.949">> @@ "10032" :> <<"40.8386", "-73.9426">> @@ "10033" :> <<"40.8501", "-73.9344">>
    @@ "10034" :> <<"40.8677", "-73.9212">> @@ "10035" :> <<"40.7957", "-73.9389">> @@ "10036" :> <<"40.759", "-73.9845">>
    @@ "10037" :> <<"40.8142", "-73.937">> @@ "10038" :> <<"40.7095", "-74.0021">> @@ "10039" :> <<"40.8203", "-73.937">>
    @@ "10040" :> <<"40.8677", "-73.9212">> @@ "10065" :> <<"40.7641", "-73.963">> @@ "10075" :> <<"40.7733", "-73.9565">>
    @@ "10128" :> <<"40.7816", "-73.9509">> @@ "10280" :> <<"40.7081", "-74.0173">>

\* Lines 221 to 233: the doubles the sums base + (hash(zip_code) % m - m/2) * step
\* evaluate to, by ZIP prefix ("" is the final branch), the entry of residue
\* hash(zip_code) % m at place residue + 1.
RegionalTable ==
    "10" :>
        <<
          <<"40.6128", "-74.106">>, <<"40.6148", "-74.104">>, <<"40.616800000000005", "-74.102">>, <<"40.6188", "-74.1">>,
          <<"40.6208", "-74.098">>, <<"40.6228", "-74.096">>, <<"40.6248", "-74.094">>, <<"40.6268", "-74.092">>,
          <<"40.6288", "-74.09">>, <<"40.6308", "-74.088">>, <<"40.6328", "-74.086">>, <<"40.6348", "-74.084">>,
          <<"40.6368", "-74.082">>, <<"40.6388", "-74.08">>, <<"40.6408", "-74.078">>, <<"40.6428", "-74.076">>,
          <<"40.644800000000004", "-74.074">>, <<"40.6468", "-74.072">>, <<"40.6488", "-74.07">>, <<"40.650800000000004", "-74.068">>,
          <<"40.6528", "-74.066">>, <<"40.6548", "-74.06400000000001">>, <<"40.656800000000004", "-74.062">>, <<"40.6588", "-74.06">>,
          <<"40.6608", "-74.058">>, <<"40.662800000000004", "-74.056">>, <<"40.6648", "-74.054">>, <<"40.6668", "-74.052">>,
          <<"40.668800000000005", "-74.05">>, <<"40.6708", "-74.048">>, <<"40.6728", "-74.046">>, <<"40.674800000000005", "-74.044">>,
          <<"40.6768", "-74.042">>, <<"40.6788", "-74.04">>, <<"40.680800000000005", "-74.038">>, <<"40.6828", "-74.036">>,
          <<"40.6848", "-74.034">>, <<"40.6868", "-74.032">>, <<"40.6888", "-74.03">>, <<"40.6908", "-74.028">>,
          <<"40.6928", "-74.026">>, <<"40.6948", "-74.024">>, <<"40.6968", "-74.022">>, <<"40.6988", "-74.02">>,
          <<"40.7008", "-74.018">>, <<"40.7028", "-74.016">>, <<"40.7048", "-74.014">>, <<"40.7068", "-74.012">>,
          <<"40.708800000000004", "-74.01">>, <<"40.7108", "-74.008">>, <<"40.7128", "-74.006">>, <<"40.714800000000004", "-74.004">>,
          <<"40.7168", "-74.002">>, <<"40.7188", "-74.0">>, <<"40.720800000000004", "-73.998">>, <<"40.7228", "-73.996">>,
          <<"40.7248", "-73.994">>, <<"40.726800000000004", "-73.992">>, <<"40.7288", "-73.99">>, <<"40.7308", "-73.988">>,
          <<"40.732800000000005", "-73.986">>, <<"40.7348", "-73.984">>, <<"40.7368", "-73.982">>, <<"40.738800000000005", "-73.98">>,
          <<"40.7408", "-73.978">>, <<"40.7428", "-73.976">>, <<"40.7448", "-73.974">>, <<"40.7468", "-73.972">>,
          <<"40.7488", "-73.97">>, <<"40.7508", "-73.968">>, <<"40.7528", "-73.966">>, <<"40.7548", "-73.964">>,
          <<"40.7568", "-73.962">>, <<"40.7588", "-73.96">>, <<"40.7608", "-73.958">>, <<"40.7628", "-73.956">>,
          <<"40.7648", "-73.954">>, <<"40.7668", "-73.952">>, <<"40.7688", "-73.95">>, <<"40.7708", "-73.948">>,
          <<"40.772800000000004", "-73.946">>, <<"40.7748", "-73.944">>, <<"40.7768", "-73.94200000000001">>, <<"40.778800000000004", "-73.94">>,
          <<"40.7808", "-73.938">>, <<"40.7828", "-73.936">>, <<"40.784800000000004", "-73.934">>, <<"40.7868", "-73.932">>,
          <<"40.7888", "-73.93">>, <<"40.790800000000004", "-73.928">>, <<"40.7928", "-73.926">>, <<"40.7948", "-73.924">>,
          <<"40.796800000000005", "-73.922">>, <<"40.7988", "-73.92">>, <<"40.8008", "-73.918">>, <<"40.802800000000005", "-73.916">>,
          <<"40.8048", "-73.914">>, <<"40.8068", "-73.912">>, <<"40.8088", "-73.91">>, <<"40.8108", "-73.908">> >>
    @@ "11" :>
        <<
          <<"40.6391", "-73.28500000000001">>, <<"40.6421", "-73.28200000000001">>, <<"40.6451", "-73.27900000000001">>, <<"40.6481", "-73.27600000000001">>,
          <<"40.6511", "-73.27300000000001">>, <<"40.6541", "-73.27000000000001">>, <<"40.6571", "-73.26700000000001">>, <<"40.6601", "-73.26400000000001">>,
          <<"40.6631", "-73.26100000000001">>, <<"40.6661", "-73.25800000000001">>, <<"40.6691", "-73.25500000000001">>, <<"40.6721", "-73.25200000000001">>,
          <<"40.6751", "-73.24900000000001">>, <<"40.6781", "-73.24600000000001">>, <<"40.6811", "-73.24300000000001">>, <<"40.6841", "-73.24000000000001">>,
          <<"40.6871", "-73.23700000000001">>, <<"40.6901", "-73.23400000000001">>, <<"40.6931", "-73.23100000000001">>, <<"40.696099999999994", "-73.22800000000001">>,
          <<"40.699099999999994", "-73.22500000000001">>, <<"40.702099999999994", "-73.22200000000001">>, <<"40.705099999999995", "-73.21900000000001">>, <<"40.708099999999995", "-73.21600000000001">>,
          <<"40.711099999999995", "-73.21300000000001">>, <<"40.714099999999995", "-73.21000000000001">>, <<"40.717099999999995", "-73.20700000000001">>, <<"40.720099999999995", "-73.20400000000001">>,
          <<"40.723099999999995", "-73.20100000000001">>, <<"40.726099999999995", "-73.19800000000001">>, <<"40.729099999999995", "-73.19500000000001">>, <<"40.732099999999996", "-73.19200000000001">>,
          <<"40.735099999999996", "-73.18900000000001">>, <<"40.738099999999996", "-73.186">>, <<"40.741099999999996", "-73.183">>, <<"40.744099999999996", "-73.18">>,
          <<"40.747099999999996", "-73.177">>, <<"40.750099999999996", "-73.174">>, <<"40.753099999999996", "-73.171">>, <<"40.756099999999996", "-73.168">>,
          <<"40.7591", "-73.165">>, <<"40.7621", "-73.162">>, <<"40.7651", "-73.159">>, <<"40.7681", "-73.156">>,
          <<"40.7711", "-73.153">>, <<"40.7741", "-73.15">>, <<"40.7771", "-73.147">>, <<"40.7801", "-73.144">>,
          <<"40.7831", "-73.141">>, <<"40.7861", "-73.138">>, <<"40.7891", "-73.135">>, <<"40.7921", "-73.132">>,
          <<"40.7951", "-73.129">>, <<"40.7981", "-73.126">>, <<"40.8011", "-73.123">>, <<"40.8041", "-73.12">>,
          <<"40.8071", "-73.117">>, <<"40.8101", "-73.114">>, <<"40.8131", "-73.111">>, <<"40.8161", "-73.108">>,
          <<"40.8191", "-73.105">>, <<"40.8221", "-73.102">>, <<"40.8251", "-73.099">>, <<"40.8281", "-73.096">>,
          <<"40.8311", "-73.093">>, <<"40.8341", "-73.09">>, <<"40.8371", "-73.087">>, <<"40.8401", "-73.084">>,
          <<"40.8431", "-73.081">>, <<"40.8461", "-73.078">>, <<"40.8491", "-73.075">>, <<"40.8521", "-73.072">>,
          <<"40.8551", "-73.069">>, <<"40.8581", "-73.066">>, <<"40.8611", "-73.063">>, <<"40.8641", "-73.06">>,
          <<"40.8671", "-73.057">>, <<"40.8701", "-73.054">>, <<"40.8731", "-73.051">>, <<"40.8761", "-73.048">>,
          <<"40.8791", "-73.045">>, <<"40.8821", "-73.042">>, <<"40.885099999999994", "-73.039">>, <<"40.888099999999994", "-73.036">>,
          <<"40.891099999999994", "-73.033">>, <<"40.894099999999995", "-73.03">>, <<"40.897099999999995", "-73.027">>, <<"40.900099999999995", "-73.024">>,
          <<"40.903099999999995", "-73.021">>, <<"40.906099999999995", "-73.018">>, <<"40.909099999999995", "-73.015">>, <<"40.912099999999995", "-73.012">>,
          <<"40.915099999999995", "-73.009">>, <<"40.918099999999995", "-73.006">>, <<"40.921099999999996", "-73.003">>, <<"40.924099999999996", "-73.0">>,
          <<"40.927099999999996", "-72.997">>, <<"40.930099999999996", "-72.994">>, <<"40.933099999999996", "-72.991">>, <<"40.936099999999996", "-72.988">> >>
    @@ "12" :>
        <<
          <<"42.5526", "-73.8562">>, <<"42.5546", "-73.8542">>, <<"42.5566", "-73.85220000000001">>, <<"42.5586", "-73.8502">>,
          <<"42.5606", "-73.8482">>, <<"42.562599999999996", "-73.84620000000001">>, <<"42.5646", "-73.8442">>, <<"42.5666", "-73.8422">>,
          <<"42.568599999999996", "-73.84020000000001">>, <<"42.5706", "-73.8382">>, <<"42.5726", "-73.8362">>, <<"42.5746", "-73.83420000000001">>,
          <<"42.5766", "-73.8322">>, <<"42.5786", "-73.8302">>, <<"42.5806", "-73.82820000000001">>, <<"42.5826", "-73.8262">>,
          <<"42.5846", "-73.8242">>, <<"42.5866", "-73.82220000000001">>, <<"42.5886", "-73.8202">>, <<"42.5906", "-73.8182">>,
          <<"42.5926", "-73.81620000000001">>, <<"42.5946", "-73.81420000000001">>, <<"42.5966", "-73.8122">>, <<"42.5986", "-73.81020000000001">>,
          <<"42.6006", "-73.80820000000001">>, <<"42.6026", "-73.8062">>, <<"42.6046", "-73.80420000000001">>, <<"42.6066", "-73.80220000000001">>,
          <<"42.6086", "-73.8002">>, <<"42.6106", "-73.79820000000001">>, <<"42.6126", "-73.79620000000001">>, <<"42.6146", "-73.7942">>,
          <<"42.6166", "-73.79220000000001">>, <<"42.6186", "-73.79020000000001">>, <<"42.6206", "-73.7882">>, <<"42.6226", "-73.78620000000001">>,
          <<"42.6246", "-73.78420000000001">>, <<"42.626599999999996", "-73.7822">>, <<"42.6286", "-73.78020000000001">>, <<"42.6306", "-73.77820000000001">>,
          <<"42.6326", "-73.7762">>, <<"42.6346", "-73.77420000000001">>, <<"42.6366", "-73.77220000000001">>, <<"42.6386", "-73.7702">>,
          <<"42.6406", "-73.76820000000001">>, <<"42.6426", "-73.76620000000001">>, <<"42.6446", "-73.7642">>, <<"42.6466", "-73.7622">>,
          <<"42.6486", "-73.76020000000001">>, <<"42.6506", "-73.7582">>, <<"42.6526", "-73.7562">>, <<"42.6546", "-73.75420000000001">>,
          <<"42.6566", "-73.7522">>, <<"42.6586", "-73.7502">>, <<"42.6606", "-73.74820000000001">>, <<"42.6626", "-73.7462">>,
          <<"42.6646", "-73.7442">>, <<"42.6666", "-73.74220000000001">>, <<"42.6686", "-73.7402">>, <<"42.6706", "-73.7382">>,
          <<"42.6726", "-73.73620000000001">>, <<"42.6746", "-73.7342">>, <<"42.6766", "-73.7322">>, <<"42.6786", "-73.73020000000001">>,
          <<"42.6806", "-73.7282">>, <<"42.6826", "-73.7262">>, <<"42.684599999999996", "-73.72420000000001">>, <<"42.6866", "-73.7222">>,
          <<"42.6886", "-73.7202">>, <<"42.690599999999996", "-73.71820000000001">>, <<"42.6926", "-73.7162">>, <<"42.6946", "-73.7142">>,
          <<"42.6966", "-73.71220000000001">>, <<"42.6986", "-73.7102">>, <<"42.7006", "-73.7082">>, <<"42.7026", "-73.70620000000001">>,
          <<"42.7046", "-73.7042">>, <<"42.7066", "-73.7022">>, <<"42.7086", "-73.70020000000001">>, <<"42.7106", "-73.6982">>,
          <<"42.7126", "-73.6962">>, <<"42.7146", "-73.69420000000001">>, <<"42.7166", "-73.69220000000001">>, <<"42.7186", "-73.6902">>,
          <<"42.7206", "-73.68820000000001">>, <<"42.7226", "-73.68620000000001">>, <<"42.7246", "-73.6842">>, <<"42.7266", "-73.68220000000001">>,
          <<"42.7286", "-73.68020000000001">>, <<"42.7306", "-73.6782">>, <<"42.7326", "-73.67620000000001">>, <<"42.7346", "-73.67420000000001">>,
          <<"42.7366", "-73.6722">>, <<"42.7386", "-73.67020000000001">>, <<"42.7406", "-73.66820000000001">>, <<"42.7426", "-73.6662">>,
          <<"42.7446", "-73.66420000000001">>, <<"42.7466", "-73.66220000000001">>, <<"42.748599999999996", "-73.6602">>, <<"42.7506", "-73.65820000000001">> >>
    @@ "13" :>
        <<
          <<"42.9481", "-76.2474">>, <<"42.9501", "-76.2454">>, <<"42.9521", "-76.24340000000001">>, <<"42.9541", "-76.2414">>,
          <<"42.9561", "-76.2394">>, <<"42.958099999999995", "-76.23740000000001">>, <<"42.9601", "-76.2354">>, <<"42.9621", "-76.2334">>,
          <<"42.964099999999995", "-76.23140000000001">>, <<"42.9661", "-76.2294">>, <<"42.9681", "-76.2274">>, <<"42.970099999999995", "-76.22540000000001">>,
          <<"42.9721", "-76.2234">>, <<"42.9741", "-76.2214">>, <<"42.976099999999995", "-76.21940000000001">>, <<"42.9781", "-76.2174">>,
          <<"42.9801", "-76.2154">>, <<"42.982099999999996", "-76.21340000000001">>, <<"42.9841", "-76.2114">>, <<"42.9861", "-76.2094">>,
          <<"42.988099999999996", "-76.2074">>, <<"42.9901", "-76.20540000000001">>, <<"42.9921", "-76.2034">>, <<"42.994099999999996", "-76.2014">>,
          <<"42.9961", "-76.19940000000001">>, <<"42.9981", "-76.1974">>, <<"43.000099999999996", "-76.1954">>, <<"43.0021", "-76.19340000000001">>,
          <<"43.0041", "-76.1914">>, <<"43.006099999999996", "-76.1894">>, <<"43.0081", "-76.18740000000001">>, <<"43.0101", "-76.1854">>,
          <<"43.0121", "-76.1834">>, <<"43.0141", "-76.18140000000001">>, <<"43.0161", "-76.1794">>, <<"43.0181", "-76.1774">>,
          <<"43.0201", "-76.17540000000001">>, <<"43.022099999999995", "-76.1734">>, <<"43.0241", "-76.1714">>, <<"43.0261", "-76.16940000000001">>,
          <<"43.028099999999995", "-76.1674">>, <<"43.0301", "-76.1654">>, <<"43.0321", "-76.16340000000001">>, <<"43.034099999999995", "-76.1614">>,
          <<"43.0361", "-76.1594">>, <<"43.0381", "-76.15740000000001">>, <<"43.040099999999995", "-76.1554">>, <<"43.0421", "-76.1534">>,
          <<"43.0441", "-76.15140000000001">>, <<"43.046099999999996", "-76.1494">>, <<"43.0481", "-76.1474">>, <<"43.0501", "-76.14540000000001">>,
          <<"43.052099999999996", "-76.1434">>, <<"43.0541", "-76.1414">>, <<"43.0561", "-76.13940000000001">>, <<"43.058099999999996", "-76.1374">>,
          <<"43.0601", "-76.1354">>, <<"43.0621", "-76.13340000000001">>, <<"43.064099999999996", "-76.1314">>, <<"43.0661", "-76.1294">>,
          <<"43.0681", "-76.12740000000001">>, <<"43.0701", "-76.1254">>, <<"43.0721", "-76.1234">>, <<"43.0741", "-76.12140000000001">>,
          <<"43.0761", "-76.1194">>, <<"43.0781", "-76.1174">>, <<"43.080099999999995", "-76.11540000000001">>, <<"43.0821", "-76.1134">>,
          <<"43.0841", "-76.1114">>, <<"43.086099999999995", "-76.10940000000001">>, <<"43.0881", "-76.1074">>, <<"43.0901", "-76.1054">>,
          <<"43.092099999999995", "-76.10340000000001">>, <<"43.0941", "-76.1014">>, <<"43.0961", "-76.0994">>, <<"43.098099999999995", "-76.09740000000001">>,
          <<"43.1001", "-76.0954">>, <<"43.1021", "-76.0934">>, <<"43.104099999999995", "-76.09140000000001">>, <<"43.1061", "-76.0894">>,
          <<"43.1081", "-76.0874">>, <<"43.110099999999996", "-76.0854">>, <<"43.1121", "-76.08340000000001">>, <<"43.1141", "-76.0814">>,
          <<"43.116099999999996", "-76.0794">>, <<"43.1181", "-76.07740000000001">>, <<"43.1201", "-76.0754">>, <<"43.122099999999996", "-76.0734">>,
          <<"43.1241", "-76.07140000000001">>, <<"43.1261", "-76.0694">>, <<"43.128099999999996", "-76.0674">>, <<"43.1301", "-76.06540000000001">>,
          <<"43.1321", "-76.0634">>, <<"43.1341", "-76.0614">>, <<"43.1361", "-76.05940000000001">>, <<"43.1381", "-76.0574">>,
          <<"43.1401", "-76.0554">>, <<"43.1421", "-76.05340000000001">>, <<"43.144099999999995", "-76.0514">>, <<"43.1461", "-76.0494">> >>
    @@ "14" :>
        <<
          <<"42.9481", "-77.7088">>, <<"42.9501", "-77.7068">>, <<"42.9521", "-77.7048">>, <<"42.9541", "-77.7028">>,
          <<"42.9561", "-77.7008">>, <<"42.958099999999995", "-77.6988">>, <<"42.9601", "-77.6968">>, <<"42.9621", "-77.6948">>,
          <<"42.964099999999995", "-77.6928">>, <<"42.9661", "-77.6908">>, <<"42.9681", "-77.6888">>, <<"42.970099999999995", "-77.6868">>,
          <<"42.9721", "-77.6848">>, <<"42.9741", "-77.6828">>, <<"42.976099999999995", "-77.6808">>, <<"42.9781", "-77.6788">>,
          <<"42.9801", "-77.6768">>, <<"42.982099999999996", "-77.6748">>, <<"42.9841", "-77.6728">>, <<"42.9861", "-77.6708">>,
          <<"42.988099999999996", "-77.6688">>, <<"42.9901", "-77.66680000000001">>, <<"42.9921", "-77.6648">>, <<"42.994099999999996", "-77.6628">>,
          <<"42.9961", "-77.66080000000001">>, <<"42.9981", "-77.6588">>, <<"43.000099999999996", "-77.6568">>, <<"43.0021", "-77.65480000000001">>,
          <<"43.0041", "-77.6528">>, <<"43.006099999999996", "-77.6508">>, <<"43.0081", "-77.64880000000001">>, <<"43.0101", "-77.6468">>,
          <<"43.0121", "-77.6448">>, <<"43.0141", "-77.64280000000001">>, <<"43.0161", "-77.6408">>, <<"43.0181", "-77.6388">>,
          <<"43.0201", "-77.63680000000001">>, <<"43.022099999999995", "-77.6348">>, <<"43.0241", "-77.6328">>, <<"43.0261", "-77.63080000000001">>,
          <<"43.028099999999995", "-77.6288">>, <<"43.0301", "-77.6268">>, <<"43.0321", "-77.62480000000001">>, <<"43.034099999999995", "-77.6228">>,
          <<"43.0361", "-77.6208">>, <<"43.0381", "-77.61880000000001">>, <<"43.040099999999995", "-77.6168">>, <<"43.0421", "-77.6148">>,
          <<"43.0441", "-77.61280000000001">>, <<"43.046099999999996", "-77.6108">>, <<"43.0481", "-77.6088">>, <<"43.0501", "-77.6068">>,
          <<"43.052099999999996", "-77.6048">>, <<"43.0541", "-77.6028">>, <<"43.0561", "-77.6008">>, <<"43.058099999999996", "-77.5988">>,
          <<"43.0601", "-77.5968">>, <<"43.0621", "-77.5948">>, <<"43.064099999999996", "-77.5928">>, <<"43.0661", "-77.5908">>,
          <<"43.0681", "-77.5888">>, <<"43.0701", "-77.5868">>, <<"43.0721", "-77.5848">>, <<"43.0741", "-77.5828">>,
          <<"43.0761", "-77.5808">>, <<"43.0781", "-77.5788">>, <<"43.080099999999995", "-77.5768">>, <<"43.0821", "-77.5748">>,
          <<"43.0841", "-77.5728">>, <<"43.086099999999995", "-77.5708">>, <<"43.0881", "-77.5688">>, <<"43.0901", "-77.5668">>,
          <<"43.092099999999995", "-77.5648">>, <<"43.0941", "-77.5628">>, <<"43.0961", "-77.5608">>, <<"43.098099999999995", "-77.5588">>,
          <<"43.1001", "-77.5568">>, <<"43.1021", "-77.5548">>, <<"43.104099999999995", "-77.5528">>, <<"43.1061", "-77.5508">>,
          <<"43.1081", "-77.5488">>, <<"43.110099999999996", "-77.5468">>, <<"43.1121", "-77.54480000000001">>, <<"43.1141", "-77.5428">>,
          <<"43.116099999999996", "-77.5408">>, <<"43.1181", "-77.53880000000001">>, <<"43.1201", "-77.5368">>, <<"43.122099999999996", "-77.5348">>,
          <<"43.1241", "-77.53280000000001">>, <<"43.1261", "-77.5308">>, <<"43.128099999999996", "-77.5288">>, <<"43.1301", "-77.52680000000001">>,
          <<"43.1321", "-77.5248">>, <<"43.1341", "-77.5228">>, <<"43.1361", "-77.52080000000001">>, <<"43.1381", "-77.5188">>,
          <<"43.1401", "-77.5168">>, <<"43.1421", "-77.51480000000001">>, <<"43.144099999999995", "-77.5128">>, <<"43.1461", "-77.5108">> >>
    @@ "" :>
        <<
          <<"40.9538", "-77.5268">>, <<"40.973800000000004", "-77.5068">>, <<"40.9938", "-77.48679999999999">>, <<"41.0138", "-77.46679999999999">>,
          <<"41.0338", "-77.4468">>, <<"41.0538", "-77.4268">>, <<"41.0738", "-77.40679999999999">>, <<"41.0938", "-77.3868">>,
          <<"41.1138", "-77.3668">>, <<"41.1338", "-77.34679999999999">>, <<"41.153800000000004", "-77.32679999999999">>, <<"41.1738", "-77.3068">>,
          <<"41.1938", "-77.2868">>, <<"41.2138", "-77.26679999999999">>, <<"41.2338", "-77.2468">>, <<"41.2538", "-77.2268">>,
          <<"41.2738", "-77.2068">>, <<"41.293800000000005", "-77.18679999999999">>, <<"41.3138", "-77.1668">>, <<"41.333800000000004", "-77.1468">>,
          <<"41.3538", "-77.12679999999999">>, <<"41.3738", "-77.10679999999999">>, <<"41.3938", "-77.0868">>, <<"41.4138", "-77.0668">>,
          <<"41.4338", "-77.04679999999999">>, <<"41.4538", "-77.0268">>, <<"41.473800000000004", "-77.0068">>, <<"41.4938", "-76.98679999999999">>,
          <<"41.5138", "-76.96679999999999">>, <<"41.5338", "-76.9468">>, <<"41.5538", "-76.9268">>, <<"41.5738", "-76.90679999999999">>,
          <<"41.5938", "-76.8868">>, <<"41.6138", "-76.8668">>, <<"41.6338", "-76.84679999999999">>, <<"41.653800000000004", "-76.82679999999999">>,
          <<"41.6738", "-76.8068">>, <<"41.6938", "-76.7868">>, <<"41.7138", "-76.76679999999999">>, <<"41.7338", "-76.7468">>,
          <<"41.7538", "-76.7268">>, <<"41.7738", "-76.7068">>, <<"41.793800000000005", "-76.68679999999999">>, <<"41.8138", "-76.6668">>,
          <<"41.833800000000004", "-76.6468">>, <<"41.8538", "-76.62679999999999">>, <<"41.8738", "-76.60679999999999">>, <<"41.8938", "-76.5868">>,
          <<"41.9138", "-76.5668">>, <<"41.9338", "-76.54679999999999">>, <<"41.9538", "-76.5268">>, <<"41.973800000000004", "-76.5068">>,
          <<"41.9938", "-76.48679999999999">>, <<"42.0138", "-76.46679999999999">>, <<"42.0338", "-76.4468">>, <<"42.0538", "-76.4268">>,
          <<"42.0738", "-76.40679999999999">>, <<"42.0938", "-76.3868">>, <<"42.1138", "-76.3668">>, <<"42.1338", "-76.34679999999999">>,
          <<"42.153800000000004", "-76.32679999999999">>, <<"42.1738", "-76.3068">>, <<"42.1938", "-76.2868">>, <<"42.2138", "-76.26679999999999">>,
          <<"42.2338", "-76.2468">>, <<"42.2538", "-76.2268">>, <<"42.2738", "-76.2068">>, <<"42.293800000000005", "-76.18679999999999">>,
          <<"42.3138", "-76.1668">>, <<"42.333800000000004", "-76.1468">>, <<"42.3538", "-76.12679999999999">>, <<"42.3738", "-76.10679999999999">>,
          <<"42.3938", "-76.0868">>, <<"42.4138", "-76.0668">>, <<"42.4338", "-76.04679999999999">>, <<"42.4538", "-76.0268">>,
          <<"42.473800000000004", "-76.0068">>, <<"42.4938", "-75.98679999999999">>, <<"42.5138", "-75.96679999999999">>, <<"42.5338", "-75.9468">>,
          <<"42.5538", "-75.9268">>, <<"42.5738", "-75.90679999999999">>, <<"42.5938", "-75.8868">>, <<"42.6138", "-75.8668">>,
          <<"42.6338", "-75.84679999999999">>, <<"42.653800000000004", "-75.82679999999999">>, <<"42.6738", "-75.8068">>, <<"42.6938", "-75.7868">>,
          <<"42.7138", "-75.76679999999999">>, <<"42.7338", "-75.7468">>, <<"42.7538", "-75.7268">>, <<"42.7738", "-75.7068">>,
          <<"42.793800000000005", "-75.68679999999999">>, <<"42.8138", "-75.6668">>, <<"42.833800000000004", "-75.6468">>, <<"42.8538", "-75.62679999999999">>,
          <<"42.8738", "-75.60679999999999">>, <<"42.8938", "-75.5868">>, <<"42.9138", "-75.5668">>, <<"42.9338", "-75.54679999999999">>,
          <<"42.9538", "-75.5268">>, <<"42.973800000000004", "-75.5068">>, <<"42.9938", "-75.48679999999999">>, <<"43.0138", "-75.46679999999999">>,
          <<"43.0338", "-75.4468">>, <<"43.0538", "-75.4268">>, <<"43.0738", "-75.40679999999999">>, <<"43.0938", "-75.3868">>,
          <<"43.1138", "-75.3668">>, <<"43.1338", "-75.34679999999999">>, <<"43.153800000000004", "-75.32679999999999">>, <<"43.1738", "-75.3068">>,
          <<"43.1938", "-75.2868">>, <<"43.2138", "-75.26679999999999">>, <<"43.2338", "-75.2468">>, <<"43.2538", "-75.2268">>,
          <<"43.2738", "-75.2068">>, <<"43.293800000000005", "-75.18679999999999">>, <<"43.3138", "-75.1668">>, <<"43.333800000000004", "-75.1468">>,
          <<"43.3538", "-75.12679999999999">>, <<"43.3738", "-75.10679999999999">>, <<"43.3938", "-75.0868">>, <<"43.4138", "-75.0668">>,
          <<"43.4338", "-75.04679999999999">>, <<"43.4538", "-75.0268">>, <<"43.473800000000004", "-75.0068">>, <<"43.4938", "-74.98679999999999">>,
          <<"43.5138", "-74.96679999999999">>, <<"43.5338", "-74.9468">>, <<"43.5538", "-74.9268">>, <<"43.5738", "-74.90679999999999">>,
          <<"43.5938", "-74.8868">>, <<"43.6138", "-74.8668">>, <<"43.6338", "-74.84679999999999">>, <<"43.653800000000004", "-74.82679999999999">>,
          <<"43.6738", "-74.8068">>, <<"43.6938", "-74.7868">>, <<"43.7138", "-74.76679999999999">>, <<"43.7338", "-74.7468">>,
          <<"43.7538", "-74.7268">>, <<"43.7738", "-74.7068">>, <<"43.793800000000005", "-74.68679999999999">>, <<"43.8138", "-74.6668">>,
          <<"43.833800000000004", "-74.6468">>, <<"43.8538", "-74.62679999999999">>, <<"43.8738", "-74.60679999999999">>, <<"43.8938", "-74.5868">>,
          <<"43.9138", "-74.5668">>, <<"43.9338", "-74.54679999999999">>, <<"43.9538", "-74.5268">>, <<"43.973800000000004", "-74.5068">>,
          <<"43.9938", "-74.48679999999999">>, <<"44.0138", "-74.46679999999999">>, <<"44.0338", "-74.4468">>, <<"44.0538", "-74.4268">>,
          <<"44.0738", "-74.40679999999999">>, <<"44.0938", "-74.3868">>, <<"44.1138", "-74.3668">>, <<"44.1338", "-74.34679999999999">>,
          <<"44.153800000000004", "-74.32679999999999">>, <<"44.1738", "-74.3068">>, <<"44.1938", "-74.2868">>, <<"44.2138", "-74.26679999999999">>,
          <<"44.2338", "-74.2468">>, <<"44.2538", "-74.2268">>, <<"44.2738", "-74.2068">>, <<"44.293800000000005", "-74.18679999999999">>,
          <<"44.3138", "-74.1668">>, <<"44.333800000000004", "-74.1468">>, <<"44.3538", "-74.12679999999999">>, <<"44.3738", "-74.10679999999999">>,
          <<"44.3938", "-74.0868">>, <<"44.4138", "-74.0668">>, <<"44.4338", "-74.04679999999999">>, <<"44.4538", "-74.0268">>,
          <<"44.473800000000004", "-74.0068">>, <<"44.4938", "-73.98679999999999">>, <<"44.5138", "-73.96679999999999">>, <<"44.5338", "-73.9468">>,
          <<"44.5538", "-73.9268">>, <<"44.5738", "-73.90679999999999">>, <<"44.5938", "-73.8868">>, <<"44.6138", "-73.8668">>,
          <<"44.6338", "-73.84679999999999">>, <<"44.653800000000004", "-73.82679999999999">>, <<"44.6738", "-73.8068">>, <<"44.6938", "-73.7868">>,
          <<"44.7138", "-73.76679999999999">>, <<"44.7338", "-73.7468">>, <<"44.7538", "-73.7268">>, <<"44.7738", "-73.7068">>,
          <<"44.793800000000005", "-73.68679999999999">>, <<"44.8138", "-73.6668">>, <<"44.833800000000004", "-73.6468">>, <<"44.8538", "-73.62679999999999">>,
          <<"44.8738", "-73.60679999999999">>, <<"44.8938", "-73.5868">>, <<"44.9138", "-73.5668">>, <<"44.9338", "-73.54679999999999">> >>

\* The branch of lines 221 to 233 a ZIP code takes, and its modulus.
RegionPrefix(zip) ==
    IF str_startswith(zip, "10") THEN "10"
    ELSE IF str_startswith(zip, "11") THEN "11"
    ELSE IF str_startswith(zip, "12") THEN "12"
    ELSE IF str_startswith(zip, "13") THEN "13"
    ELSE IF str_startswith(zip, "14") THEN "14"
    ELSE ""
RegionModulus(prefix) == IF prefix = "" THEN 200 ELSE 100

\* The regional approximation, h being hash(zip_code) in this process.
RegionalCentroid(zip, h) ==
    RegionalTable[RegionPrefix(zip)][(h % RegionModulus(RegionPrefix(zip))) + 1]

\* An outcome of the lookup of line 211: it raised, it found no record, or
\* it returned the coordinates of a record with that ZIP code.
LookupRaised == [raised |-> TRUE, found |-> FALSE, latitude |-> None, longitude |-> None]
LookupEmpty == [raised |-> FALSE, found |-> FALSE, latitude |-> None, longitude |-> None]
LookupRow(r) ==
    [raised |-> FALSE, found |-> TRUE, latitude |-> r.latitude, longitude |-> r.longitude]

\* A resolver without the handler of lines 217 and 218: a lookup that raises
\* leaves it without a coordinate.
_get_zip_coordinates_Raises(zip, lookup, h) ==
    IF zip \in DOMAIN ZIP_COORDINATES THEN ZIP_COORDINATES[zip]
    ELSE IF lookup.raised THEN <<None, None>>
    ELSE IF lookup.found /\ Truthy(lookup.latitude) /\ Truthy(lookup.longitude)
         THEN <<lookup.latitude, lookup.longitude>>
         ELSE RegionalCentroid(zip, h)

\* _get_zip_coordinates: the table, then the stored record, then the region.
_get_zip_coordinates(zip, lookup, h) ==
    IF zip \in DOMAIN ZIP_COORDINATES THEN ZIP_COORDINATES[zip]
    ELSE IF lookup.found /\ Truthy(lookup.latitude) /\ Truthy(lookup.longitude)
         THEN <<lookup.latitude, lookup.longitude>>
         ELSE RegionalCentroid(zip, h)

\* Lines 66 to 69: the search centre, New York City when a coordinate is
\* missing or zero.
NYC_FALLBACK == <<"40.7128", "-74.006">>
SearchCenter(coords) ==
    IF ~Truthy(coords[1]) \/ ~Truthy(coords[2]) THEN NYC_FALLBACK ELSE coords

(***************************************************************************)
(* ProviderService: the distance calculator.                               *)
(***************************************************************************)
\* float('inf'), which line 255 returns when the formula raises: above every
\* distance and every radius of the model.
INFINITE_DISTANCE == 2147483647

\* The haversine formula of lines 239 to 251 on the coordinates of the
\* model: for <<lat1, lng1, lat2, lng2>>, the distance in ten-thousandths
\* of a kilometre rounded up (so that distance <= radius_km is decided
\* exactly for a whole radius_km) and round(distance, 2) in hundredths.
HaversineTable ==
    (   <<"40.7505", "-73.9934", "40.7505", "-73.9934">> :> <<0, 0>>
        @@ <<"40.7505", "-73.9934", "40.8386", "-73.9426">> :> <<106890, 1069>>
        @@ <<"40.7505", "-73.9934", "41.19982596636056", "-73.97041982671311">> :> <<500000, 5000>>
        @@ <<"40.7505", "-73.9934", "41.200197", "-73.9934">> :> <<500041, 5000>>
        @@ <<"40.7505", "-73.9934", "41.4", "-73.5">> :> <<832249, 8322>>
        @@ <<"40.7505", "-73.9934", "0.0", "-73.9934">> :> <<45312489, 453125>>
        @@ <<"40.7128", "-74.006", "40.7505", "-73.9934">> :> <<43245, 432>>
        @@ <<"40.7128", "-74.006", "40.8386", "-73.9426">> :> <<149725, 1497>>
        @@ <<"40.7128", "-74.006", "41.19982596636056", "-73.97041982671311">> :> <<542372, 5424>>
        @@ <<"40.7128", "-74.006", "41.200197", "-73.9934">> :> <<542065, 5421>>
        @@ <<"40.7128", "-74.006", "41.4", "-73.5">> :> <<874012, 8740>>
        @@ <<"40.7128", "-74.006", "0.0", "-73.9934">> :> <<45270570, 452706>>
        @@ <<"41.19982596636056", "-73.97041982671311", "40.7505", "-73.9934">> :> <<500000, 5000>>
        @@ <<"41.19982596636056", "-73.97041982671311", "40.8386", "-73.9426">> :> <<402343, 4023>>
        @@ <<"41.19982596636056", "-73.97041982671311", "41.19982596636056", "-73.97041982671311">> :> <<0, 0>>
        @@ <<"41.19982596636056", "-73.97041982671311", "41.200197", "-73.9934">> :> <<19231, 192>>
        @@ <<"41.19982596636056", "-73.97041982671311", "41.4", "-73.5">> :> <<451632, 4516>>
        @@ <<"41.19982596636056", "-73.97041982671311", "0.0", "-73.9934">> :> <<45812123, 458121>> )
    @@ (   <<"40.6128", "-74.106", "40.7505", "-73.9934">> :> <<180166, 1802>>
        @@ <<"40.6128", "-74.106", "40.8386", "-73.9426">> :> <<286357, 2864>>
        @@ <<"40.6128", "-74.106", "41.19982596636056", "-73.97041982671311">> :> <<662613, 6626>>
        @@ <<"40.6128", "-74.106", "41.200197", "-73.9934">> :> <<659975, 6600>>
        @@ <<"40.6128", "-74.106", "0.0", "-73.9934">> :> <<45159517, 451595>>
        @@ <<"40.6148", "-74.104", "40.7505", "-73.9934">> :> <<177387, 1774>>
        @@ <<"40.6148", "-74.104", "40.8386", "-73.9426">> :> <<283596, 2836>>
        @@ <<"40.6148", "-74.104", "41.19982596636056", "-73.97041982671311">> :> <<660134, 6601>>
        @@ <<"40.6148", "-74.104", "41.200197", "-73.9934">> :> <<657534, 6575>>
        @@ <<"40.6148", "-74.104", "0.0", "-73.9934">> :> <<45161736, 451617>>
        @@ <<"40.616800000000005", "-74.102", "40.7505", "-73.9934">> :> <<174608, 1746>>
        @@ <<"40.616800000000005", "-74.102", "40.8386", "-73.9426">> :> <<280835, 2808>>
        @@ <<"40.616800000000005", "-74.102", "41.19982596636056", "-73.97041982671311">> :> <<657658, 6577>>
        @@ <<"40.616800000000005", "-74.102", "41.200197", "-73.9934">> :> <<655096, 6551>>
        @@ <<"40.616800000000005", "-74.102", "0.0", "-73.9934">> :> <<45163955, 451640>>
        @@ <<"40.6188", "-74.1", "40.7505", "-73.9934">> :> <<171829, 1718>>
        @@ <<"40.6188", "-74.1", "40.8386", "-73.9426">> :> <<278076, 2781>>
        @@ <<"40.6188", "-74.1", "41.19982596636056", "-73.97041982671311">> :> <<655184, 6552>>
        @@ <<"40.6188", "-74.1", "41.200197", "-73.9934">> :> <<652661, 6527>>
        @@ <<"40.6188", "-74.1", "0.0", "-73.9934">> :> <<45166174, 451662>>
        @@ <<"40.6208", "-74.098", "40.7505", "-73.9934">> :> <<169051, 1691>>
        @@ <<"40.6208", "-74.098", "40.8386", "-73.9426">> :> <<275316, 2753>>
        @@ <<"40.6208", "-74.098", "41.19982596636056", "-73.97041982671311">> :> <<652713, 6527>>
        @@ <<"40.6208", "-74.098", "41.200197", "-73.9934">> :> <<650229, 6502>>
        @@ <<"40.6208", "-74.098", "0.0", "-73.9934">> :> <<45168393, 451684>>
        @@ <<"40.6228", "-74.096", "40.7505", "-73.9934">> :> <<166274, 1663>>
        @@ <<"40.6228", "-74.096", "40.8386", "-73.9426">> :> <<272558, 2726>>
        @@ <<"40.6228", "-74.096", "41.19982596636056", "-73.97041982671311">> :> <<650244, 6502>>
        @@ <<"40.6228", "-74.096", "41.200197", "-73.9934">> :> <<647800, 6478>>
        @@ <<"40.6228", "-74.096", "0.0", "-73.9934">> :> <<45170612, 451706>>
        @@ <<"40.6248", "-74.094", "40.7505", "-73.9934">> :> <<163497, 1635>>
        @@ <<"40.6248", "-74.094", "40.8386", "-73.9426">> :> <<269800, 2698>>
        @@ <<"40.6248", "-74.094", "41.19982596636056", "-73.97041982671311">> :> <<647778, 6478>>
        @@ <<"40.6248", "-74.094", "41.200197", "-73.9934">> :> <<645373, 6454>>
        @@ <<"40.6248", "-74.094", "0.0", "-73.9934">> :> <<45172832, 451728>>
        @@ <<"40.6268", "-74.092", "40.7505", "-73.9934">> :> <<160720, 1607>>
        @@ <<"40.6268", "-74.092", "40.8386", "-73.9426">> :> <<267043, 2670>>
        @@ <<"40.6268", "-74.092", "41.19982596636056", "-73.97041982671311">> :> <<645315, 6453>>
        @@ <<"40.6268", "-74.092", "41.200197", "-73.9934">> :> <<642950, 6429>>
        @@ <<"40.6268", "-74.092", "0.0", "-73.9934">> :> <<45175051, 451751>>
        @@ <<"40.6288", "-74.09", "40.7505", "-73.9934">> :> <<157944, 1579>>
        @@ <<"40.6288", "-74.09", "40.8386", "-73.9426">> :> <<264287, 2643>>
        @@ <<"40.6288", "-74.09", "41.19982596636056", "-73.97041982671311">> :> <<642854, 6429>>
        @@ <<"40.6288", "-74.09", "41.200197", "-73.9934">> :> <<640529, 6405>>
        @@ <<"40.6288", "-74.09", "0.0", "-73.9934">> :> <<45177270, 451773>>
        @@ <<"40.6308", "-74.088", "40.7505", "-73.9934">> :> <<155169, 1552>>
        @@ <<"40.6308", "-74.088", "40.8386", "-73.9426">> :> <<261532, 2615>>
        @@ <<"40.6308", "-74.088", "41.19982596636056", "-73.97041982671311">> :> <<640396, 6404>>
        @@ <<"40.6308", "-74.088", "41.200197", "-73.9934">> :> <<638111, 6381>>
        @@ <<"40.6308", "-74.088", "0.0", "-73.9934">> :> <<45179490, 451795>> )
    @@ (   <<"40.6328", "-74.086", "40.7505", "-73.9934">> :> <<152394, 1524>>
        @@ <<"40.6328", "-74.086", "40.8386", "-73.9426">> :> <<258777, 2588>>
        @@ <<"40.6328", "-74.086", "41.19982596636056", "-73.97041982671311">> :> <<637940, 6379>>
        @@ <<"40.6328", "-74.086", "41.200197", "-73.9934">> :> <<635697, 6357>>
        @@ <<"40.6328", "-74.086", "0.0", "-73.9934">> :> <<45181710, 451817>>
        @@ <<"40.6348", "-74.084", "40.7505", "-73.9934">> :> <<149620, 1496>>
        @@ <<"40.6348", "-74.084", "40.8386", "-73.9426">> :> <<256023, 2560>>
        @@ <<"40.6348", "-74.084", "41.19982596636056", "-73.97041982671311">> :> <<635488, 6355>>
        @@ <<"40.6348", "-74.084", "41.200197", "-73.9934">> :> <<633285, 6333>>
        @@ <<"40.6348", "-74.084", "0.0", "-73.9934">> :> <<45183929, 451839>>
        @@ <<"40.6368", "-74.082", "40.7505", "-73.9934">> :> <<146847, 1468>>
        @@ <<"40.6368", "-74.082", "40.8386", "-73.9426">> :> <<253270, 2533>>
        @@ <<"40.6368", "-74.082", "41.19982596636056", "-73.97041982671311">> :> <<633038, 6330>>
        @@ <<"40.6368", "-74.082", "41.200197", "-73.9934">> :> <<630877, 6309>>
        @@ <<"40.6368", "-74.082", "0.0", "-73.9934">> :> <<45186149, 451861>>
        @@ <<"40.6388", "-74.08", "40.7505", "-73.9934">> :> <<144074, 1441>>
        @@ <<"40.6388", "-74.08", "40.8386", "-73.9426">> :> <<250518, 2505>>
        @@ <<"40.6388", "-74.08", "41.19982596636056", "-73.97041982671311">> :> <<630591, 6306>>
        @@ <<"40.6388", "-74.08", "41.200197", "-73.9934">> :> <<628472, 6285>>
        @@ <<"40.6388", "-74.08", "0.0", "-73.9934">> :> <<45188369, 451884>>
        @@ <<"40.6408", "-74.078", "40.7505", "-73.9934">> :> <<141303, 1413>>
        @@ <<"40.6408", "-74.078", "40.8386", "-73.9426">> :> <<247767, 2478>>
        @@ <<"40.6408", "-74.078", "41.19982596636056", "-73.97041982671311">> :> <<628146, 6281>>
        @@ <<"40.6408", "-74.078", "41.200197", "-73.9934">> :> <<626070, 6261>>
        @@ <<"40.6408", "-74.078", "0.0", "-73.9934">> :> <<45190589, 451906>>
        @@ <<"40.6428", "-74.076", "40.7505", "-73.9934">> :> <<138532, 1385>>
        @@ <<"40.6428", "-74.076", "40.8386", "-73.9426">> :> <<245017, 2450>>
        @@ <<"40.6428", "-74.076", "41.19982596636056", "-73.97041982671311">> :> <<625705, 6257>>
        @@ <<"40.6428", "-74.076", "41.200197", "-73.9934">> :> <<623671, 6237>>
        @@ <<"40.6428", "-74.076", "0.0", "-73.9934">> :> <<45192809, 451928>>
        @@ <<"40.644800000000004", "-74.074", "40.7505", "-73.9934">> :> <<135761, 1358>>
        @@ <<"40.644800000000004", "-74.074", "40.8386", "-73.9426">> :> <<242267, 2423>>
        @@ <<"40.644800000000004", "-74.074", "41.19982596636056", "-73.97041982671311">> :> <<623267, 6233>>
        @@ <<"40.644800000000004", "-74.074", "41.200197", "-73.9934">> :> <<621275, 6213>>
        @@ <<"40.644800000000004", "-74.074", "0.0", "-73.9934">> :> <<45195029, 451950>>
        @@ <<"40.6468", "-74.072", "40.7505", "-73.9934">> :> <<132992, 1330>>
        @@ <<"40.6468", "-74.072", "40.8386", "-73.9426">> :> <<239519, 2395>>
        @@ <<"40.6468", "-74.072", "41.19982596636056", "-73.97041982671311">> :> <<620831, 6208>>
        @@ <<"40.6468", "-74.072", "41.200197", "-73.9934">> :> <<618883, 6189>>
        @@ <<"40.6468", "-74.072", "0.0", "-73.9934">> :> <<45197250, 451972>>
        @@ <<"40.6488", "-74.07", "40.7505", "-73.9934">> :> <<130224, 1302>>
        @@ <<"40.6488", "-74.07", "40.8386", "-73.9426">> :> <<236772, 2368>>
        @@ <<"40.6488", "-74.07", "41.19982596636056", "-73.97041982671311">> :> <<618399, 6184>>
        @@ <<"40.6488", "-74.07", "41.200197", "-73.9934">> :> <<616494, 6165>>
        @@ <<"40.6488", "-74.07", "0.0", "-73.9934">> :> <<45199470, 451995>>
        @@ <<"40.650800000000004", "-74.068", "40.7505", "-73.9934">> :> <<127457, 1275>>
        @@ <<"40.650800000000004", "-74.068", "40.8386", "-73.9426">> :> <<234026, 2340>>
        @@ <<"40.650800000000004", "-74.068", "41.19982596636056", "-73.97041982671311">> :> <<615969, 6160>>
        @@ <<"40.650800000000004", "-74.068", "41.200197", "-73.9934">> :> <<614109, 6141>>
        @@ <<"40.650800000000004", "-74.068", "0.0", "-73.9934">> :> <<45201691, 452017>> )
    @@ (   <<"40.6528", "-74.066", "40.7505", "-73.9934">> :> <<124691, 1247>>
        @@ <<"40.6528", "-74.066", "40.8386", "-73.9426">> :> <<231280, 2313>>
        @@ <<"40.6528", "-74.066", "41.19982596636056", "-73.97041982671311">> :> <<613543, 6135>>
        @@ <<"40.6528", "-74.066", "41.200197", "-73.9934">> :> <<611726, 6117>>
        @@ <<"40.6528", "-74.066", "0.0", "-73.9934">> :> <<45203911, 452039>>
        @@ <<"40.6548", "-74.06400000000001", "40.7505", "-73.9934">> :> <<121926, 1219>>
        @@ <<"40.6548", "-74.06400000000001", "40.8386", "-73.9426">> :> <<228536, 2285>>
        @@ <<"40.6548", "-74.06400000000001", "41.19982596636056", "-73.97041982671311">> :> <<611120, 6111>>
        @@ <<"40.6548", "-74.06400000000001", "41.200197", "-73.9934">> :> <<609348, 6093>>
        @@ <<"40.6548", "-74.06400000000001", "0.0", "-73.9934">> :> <<45206132, 452061>>
        @@ <<"40.656800000000004", "-74.062", "40.7505", "-73.9934">> :> <<119162, 1192>>
        @@ <<"40.656800000000004", "-74.062", "40.8386", "-73.9426">> :> <<225793, 2258>>
        @@ <<"40.656800000000004", "-74.062", "41.19982596636056", "-73.97041982671311">> :> <<608700, 6087>>
        @@ <<"40.656800000000004", "-74.062", "41.200197", "-73.9934">> :> <<606973, 6070>>
        @@ <<"40.656800000000004", "-74.062", "0.0", "-73.9934">> :> <<45208353, 452084>>
        @@ <<"40.6588", "-74.06", "40.7505", "-73.9934">> :> <<116400, 1164>>
        @@ <<"40.6588", "-74.06", "40.8386", "-73.9426">> :> <<223052, 2231>>
        @@ <<"40.6588", "-74.06", "41.19982596636056", "-73.97041982671311">> :> <<606283, 6063>>
        @@ <<"40.6588", "-74.06", "41.200197", "-73.9934">> :> <<604601, 6046>>
        @@ <<"40.6588", "-74.06", "0.0", "-73.9934">> :> <<45210573, 452106>>
        @@ <<"40.6608", "-74.058", "40.7505", "-73.9934">> :> <<113639, 1136>>
        @@ <<"40.6608", "-74.058", "40.8386", "-73.9426">> :> <<220311, 2203>>
        @@ <<"40.6608", "-74.058", "41.19982596636056", "-73.97041982671311">> :> <<603869, 6039>>
        @@ <<"40.6608", "-74.058", "41.200197", "-73.9934">> :> <<602233, 6022>>
        @@ <<"40.6608", "-74.058", "0.0", "-73.9934">> :> <<45212794, 452128>>
        @@ <<"40.662800000000004", "-74.056", "40.7505", "-73.9934">> :> <<110879, 1109>>
        @@ <<"40.662800000000004", "-74.056", "40.8386", "-73.9426">> :> <<217572, 2176>>
        @@ <<"40.662800000000004", "-74.056", "41.19982596636056", "-73.97041982671311">> :> <<601458, 6015>>
        @@ <<"40.662800000000004", "-74.056", "41.200197", "-73.9934">> :> <<599868, 5999>>
        @@ <<"40.662800000000004", "-74.056", "0.0", "-73.9934">> :> <<45215015, 452150>>
        @@ <<"40.6648", "-74.054", "40.7505", "-73.9934">> :> <<108122, 1081>>
        @@ <<"40.6648", "-74.054", "40.8386", "-73.9426">> :> <<214835, 2148>>
        @@ <<"40.6648", "-74.054", "41.19982596636056", "-73.97041982671311">> :> <<599051, 5991>>
        @@ <<"40.6648", "-74.054", "41.200197", "-73.9934">> :> <<597507, 5975>>
        @@ <<"40.6648", "-74.054", "0.0", "-73.9934">> :> <<45217237, 452172>>
        @@ <<"40.6668", "-74.052", "40.7505", "-73.9934">> :> <<105366, 1054>>
        @@ <<"40.6668", "-74.052", "40.8386", "-73.9426">> :> <<212098, 2121>>
        @@ <<"40.6668", "-74.052", "41.19982596636056", "-73.97041982671311">> :> <<596647, 5966>>
        @@ <<"40.6668", "-74.052", "41.200197", "-73.9934">> :> <<595150, 5951>>
        @@ <<"40.6668", "-74.052", "0.0", "-73.9934">> :> <<45219458, 452195>>
        @@ <<"40.668800000000005", "-74.05", "40.7505", "-73.9934">> :> <<102612, 1026>>
        @@ <<"40.668800000000005", "-74.05", "40.8386", "-73.9426">> :> <<209364, 2094>>
        @@ <<"40.668800000000005", "-74.05", "41.19982596636056", "-73.97041982671311">> :> <<594246, 5942>>
        @@ <<"40.668800000000005", "-74.05", "41.200197", "-73.9934">> :> <<592797, 5928>>
        @@ <<"40.668800000000005", "-74.05", "0.0", "-73.9934">> :> <<45221679, 452217>>
        @@ <<"40.6708", "-74.048", "40.7505", "-73.9934">> :> <<99860, 999>>
        @@ <<"40.6708", "-74.048", "40.8386", "-73.9426">> :> <<206630, 2066>>
        @@ <<"40.6708", "-74.048", "41.19982596636056", "-73.97041982671311">> :> <<591849, 5918>>
        @@ <<"40.6708", "-74.048", "41.200197", "-73.9934">> :> <<590447, 5904>>
        @@ <<"40.6708", "-74.048", "0.0", "-73.9934">> :> <<45223900, 452239>> )
    @@ (   <<"40.6728", "-74.046", "40.7505", "-73.9934">> :> <<97110, 971>>
        @@ <<"40.6728", "-74.046", "40.8386", "-73.9426">> :> <<203898, 2039>>
        @@ <<"40.6728", "-74.046", "41.19982596636056", "-73.97041982671311">> :> <<589456, 5895>>
        @@ <<"40.6728", "-74.046", "41.200197", "-73.9934">> :> <<588101, 5881>>
        @@ <<"40.6728", "-74.046", "0.0", "-73.9934">> :> <<45226122, 452261>>
        @@ <<"40.674800000000005", "-74.044", "40.7505", "-73.9934">> :> <<94363, 944>>
        @@ <<"40.674800000000005", "-74.044", "40.8386", "-73.9426">> :> <<201168, 2012>>
        @@ <<"40.674800000000005", "-74.044", "41.19982596636056", "-73.97041982671311">> :> <<587065, 5871>>
        @@ <<"40.674800000000005", "-74.044", "41.200197", "-73.9934">> :> <<585759, 5858>>
        @@ <<"40.674800000000005", "-74.044", "0.0", "-73.9934">> :> <<45228343, 452283>>
        @@ <<"40.6768", "-74.042", "40.7505", "-73.9934">> :> <<91618, 916>>
        @@ <<"40.6768", "-74.042", "40.8386", "-73.9426">> :> <<198440, 1984>>
        @@ <<"40.6768", "-74.042", "41.19982596636056", "-73.97041982671311">> :> <<584679, 5847>>
        @@ <<"40.6768", "-74.042", "41.200197", "-73.9934">> :> <<583421, 5834>>
        @@ <<"40.6768", "-74.042", "0.0", "-73.9934">> :> <<45230565, 452306>>
        @@ <<"40.6788", "-74.04", "40.7505", "-73.9934">> :> <<88876, 889>>
        @@ <<"40.6788", "-74.04", "40.8386", "-73.9426">> :> <<195713, 1957>>
        @@ <<"40.6788", "-74.04", "41.19982596636056", "-73.97041982671311">> :> <<582295, 5823>>
        @@ <<"40.6788", "-74.04", "41.200197", "-73.9934">> :> <<581087, 5811>>
        @@ <<"40.6788", "-74.04", "0.0", "-73.9934">> :> <<45232787, 452328>>
        @@ <<"40.680800000000005", "-74.038", "40.7505", "-73.9934">> :> <<86138, 861>>
        @@ <<"40.680800000000005", "-74.038", "40.8386", "-73.9426">> :> <<192989, 1930>>
        @@ <<"40.680800000000005", "-74.038", "41.19982596636056", "-73.97041982671311">> :> <<579916, 5799>>
        @@ <<"40.680800000000005", "-74.038", "41.200197", "-73.9934">> :> <<578757, 5788>>
        @@ <<"40.680800000000005", "-74.038", "0.0", "-73.9934">> :> <<45235009, 452350>>
        @@ <<"40.6828", "-74.036", "40.7505", "-73.9934">> :> <<83403, 834>>
        @@ <<"40.6828", "-74.036", "40.8386", "-73.9426">> :> <<190266, 1903>>
        @@ <<"40.6828", "-74.036", "41.19982596636056", "-73.97041982671311">> :> <<577540, 5775>>
        @@ <<"40.6828", "-74.036", "41.200197", "-73.9934">> :> <<576431, 5764>>
        @@ <<"40.6828", "-74.036", "0.0", "-73.9934">> :> <<45237231, 452372>>
        @@ <<"40.6848", "-74.034", "40.7505", "-73.9934">> :> <<80672, 807>>
        @@ <<"40.6848", "-74.034", "40.8386", "-73.9426">> :> <<187545, 1875>>
        @@ <<"40.6848", "-74.034", "41.19982596636056", "-73.97041982671311">> :> <<575168, 5752>>
        @@ <<"40.6848", "-74.034", "41.200197", "-73.9934">> :> <<574109, 5741>>
        @@ <<"40.6848", "-74.034", "0.0", "-73.9934">> :> <<45239453, 452395>>
        @@ <<"40.6868", "-74.032", "40.7505", "-73.9934">> :> <<77945, 779>>
        @@ <<"40.6868", "-74.032", "40.8386", "-73.9426">> :> <<184826, 1848>>
        @@ <<"40.6868", "-74.032", "41.19982596636056", "-73.97041982671311">> :> <<572799, 5728>>
        @@ <<"40.6868", "-74.032", "41.200197", "-73.9934">> :> <<571792, 5718>>
        @@ <<"40.6868", "-74.032", "0.0", "-73.9934">> :> <<45241675, 452417>>
        @@ <<"40.6888", "-74.03", "40.7505", "-73.9934">> :> <<75223, 752>>
        @@ <<"40.6888", "-74.03", "40.8386", "-73.9426">> :> <<182110, 1821>>
        @@ <<"40.6888", "-74.03", "41.19982596636056", "-73.97041982671311">> :> <<570435, 5704>>
        @@ <<"40.6888", "-74.03", "41.200197", "-73.9934">> :> <<569478, 5695>>
        @@ <<"40.6888", "-74.03", "0.0", "-73.9934">> :> <<45243897, 452439>>
        @@ <<"40.6908", "-74.028", "40.7505", "-73.9934">> :> <<72506, 725>>
        @@ <<"40.6908", "-74.028", "40.8386", "-73.9426">> :> <<179395, 1794>>
        @@ <<"40.6908", "-74.028", "41.19982596636056", "-73.97041982671311">> :> <<568074, 5681>>
        @@ <<"40.6908", "-74.028", "41.200197", "-73.9934">> :> <<567169, 5672>>
        @@ <<"40.6908", "-74.028", "0.0", "-73.9934">> :> <<45246119, 452461>> )
    @@ (   <<"40.6928", "-74.026", "40.7505", "-73.9934">> :> <<69795, 698>>
        @@ <<"40.6928", "-74.026", "40.8386", "-73.9426">> :> <<176684, 1767>>
        @@ <<"40.6928", "-74.026", "41.19982596636056", "-73.97041982671311">> :> <<565717, 5657>>
        @@ <<"40.6928", "-74.026", "41.200197", "-73.9934">> :> <<564864, 5649>>
        @@ <<"40.6928", "-74.026", "0.0", "-73.9934">> :> <<45248342, 452483>>
        @@ <<"40.6948", "-74.024", "40.7505", "-73.9934">> :> <<67090, 671>>
        @@ <<"40.6948", "-74.024", "40.8386", "-73.9426">> :> <<173974, 1740>>
        @@ <<"40.6948", "-74.024", "41.19982596636056", "-73.97041982671311">> :> <<563364, 5634>>
        @@ <<"40.6948", "-74.024", "41.200197", "-73.9934">> :> <<562564, 5626>>
        @@ <<"40.6948", "-74.024", "0.0", "-73.9934">> :> <<45250564, 452506>>
        @@ <<"40.6968", "-74.022", "40.7505", "-73.9934">> :> <<64393, 644>>
        @@ <<"40.6968", "-74.022", "40.8386", "-73.9426">> :> <<171267, 1713>>
        @@ <<"40.6968", "-74.022", "41.19982596636056", "-73.97041982671311">> :> <<561015, 5610>>
        @@ <<"40.6968", "-74.022", "41.200197", "-73.9934">> :> <<560268, 5603>>
        @@ <<"40.6968", "-74.022", "0.0", "-73.9934">> :> <<45252787, 452528>>
        @@ <<"40.6988", "-74.02", "40.7505", "-73.9934">> :> <<61704, 617>>
        @@ <<"40.6988", "-74.02", "40.8386", "-73.9426">> :> <<168563, 1686>>
        @@ <<"40.6988", "-74.02", "41.19982596636056", "-73.97041982671311">> :> <<558670, 5587>>
        @@ <<"40.6988", "-74.02", "41.200197", "-73.9934">> :> <<557976, 5580>>
        @@ <<"40.6988", "-74.02", "0.0", "-73.9934">> :> <<45255009, 452550>>
        @@ <<"40.7008", "-74.018", "40.7505", "-73.9934">> :> <<59024, 590>>
        @@ <<"40.7008", "-74.018", "40.8386", "-73.9426">> :> <<165862, 1659>>
        @@ <<"40.7008", "-74.018", "41.19982596636056", "-73.97041982671311">> :> <<556329, 5563>>
        @@ <<"40.7008", "-74.018", "41.200197", "-73.9934">> :> <<555689, 5557>>
        @@ <<"40.7008", "-74.018", "0.0", "-73.9934">> :> <<45257232, 452572>>
        @@ <<"40.7028", "-74.016", "40.7505", "-73.9934">> :> <<56356, 564>>
        @@ <<"40.7028", "-74.016", "40.8386", "-73.9426">> :> <<163164, 1632>>
        @@ <<"40.7028", "-74.016", "41.19982596636056", "-73.97041982671311">> :> <<553992, 5540>>
        @@ <<"40.7028", "-74.016", "41.200197", "-73.9934">> :> <<553406, 5534>>
        @@ <<"40.7028", "-74.016", "0.0", "-73.9934">> :> <<45259455, 452595>>
        @@ <<"40.7048", "-74.014", "40.7505", "-73.9934">> :> <<53700, 537>>
        @@ <<"40.7048", "-74.014", "40.8386", "-73.9426">> :> <<160469, 1605>>
        @@ <<"40.7048", "-74.014", "41.19982596636056", "-73.97041982671311">> :> <<551660, 5517>>
        @@ <<"40.7048", "-74.014", "41.200197", "-73.9934">> :> <<551128, 5511>>
        @@ <<"40.7048", "-74.014", "0.0", "-73.9934">> :> <<45261678, 452617>>
        @@ <<"40.7068", "-74.012", "40.7505", "-73.9934">> :> <<51058, 511>>
        @@ <<"40.7068", "-74.012", "40.8386", "-73.9426">> :> <<157778, 1578>>
        @@ <<"40.7068", "-74.012", "41.19982596636056", "-73.97041982671311">> :> <<549331, 5493>>
        @@ <<"40.7068", "-74.012", "41.200197", "-73.9934">> :> <<548855, 5489>>
        @@ <<"40.7068", "-74.012", "0.0", "-73.9934">> :> <<45263901, 452639>>
        @@ <<"40.708800000000004", "-74.01", "40.7505", "-73.9934">> :> <<48433, 484>>
        @@ <<"40.708800000000004", "-74.01", "40.8386", "-73.9426">> :> <<155090, 1551>>
        @@ <<"40.708800000000004", "-74.01", "41.19982596636056", "-73.97041982671311">> :> <<547007, 5470>>
        @@ <<"40.708800000000004", "-74.01", "41.200197", "-73.9934">> :> <<546587, 5466>>
        @@ <<"40.708800000000004", "-74.01", "0.0", "-73.9934">> :> <<45266124, 452661>>
        @@ <<"40.7108", "-74.008", "40.7505", "-73.9934">> :> <<45827, 458>>
        @@ <<"40.7108", "-74.008", "40.8386", "-73.9426">> :> <<152405, 1524>>
        @@ <<"40.7108", "-74.008", "41.19982596636056", "-73.97041982671311">> :> <<544688, 5447>>
        @@ <<"40.7108", "-74.008", "41.200197", "-73.9934">> :> <<544323, 5443>>
        @@ <<"40.7108", "-74.008", "0.0", "-73.9934">> :> <<45268347, 452683>> )
    @@ (   <<"40.714800000000004", "-74.004", "40.7505", "-73.9934">> :> <<40689, 407>>
        @@ <<"40.714800000000004", "-74.004", "40.8386", "-73.9426">> :> <<147048, 1470>>
        @@ <<"40.714800000000004", "-74.004", "41.19982596636056", "-73.97041982671311">> :> <<540061, 5401>>
        @@ <<"40.714800000000004", "-74.004", "41.200197", "-73.9934">> :> <<539811, 5398>>
        @@ <<"40.714800000000004", "-74.004", "0.0", "-73.9934">> :> <<45272794, 452728>>
        @@ <<"40.7168", "-74.002", "40.7505", "-73.9934">> :> <<38167, 382>>
        @@ <<"40.7168", "-74.002", "40.8386", "-73.9426">> :> <<144376, 1444>>
        @@ <<"40.7168", "-74.002", "41.19982596636056", "-73.97041982671311">> :> <<537755, 5378>>
        @@ <<"40.7168", "-74.002", "41.200197", "-73.9934">> :> <<537562, 5376>>
        @@ <<"40.7168", "-74.002", "0.0", "-73.9934">> :> <<45275017, 452750>>
        @@ <<"40.7188", "-74.0", "40.7505", "-73.9934">> :> <<35685, 357>>
        @@ <<"40.7188", "-74.0", "40.8386", "-73.9426">> :> <<141709, 1417>>
        @@ <<"40.7188", "-74.0", "41.19982596636056", "-73.97041982671311">> :> <<535453, 5355>>
        @@ <<"40.7188", "-74.0", "41.200197", "-73.9934">> :> <<535318, 5353>>
        @@ <<"40.7188", "-74.0", "0.0", "-73.9934">> :> <<45277241, 452772>>
        @@ <<"40.720800000000004", "-73.998", "40.7505", "-73.9934">> :> <<33252, 333>>
        @@ <<"40.720800000000004", "-73.998", "40.8386", "-73.9426">> :> <<139046, 1390>>
        @@ <<"40.720800000000004", "-73.998", "41.19982596636056", "-73.97041982671311">> :> <<533156, 5332>>
        @@ <<"40.720800000000004", "-73.998", "41.200197", "-73.9934">> :> <<533080, 5331>>
        @@ <<"40.720800000000004", "-73.998", "0.0", "-73.9934">> :> <<45279464, 452795>>
        @@ <<"40.7228", "-73.996", "40.7505", "-73.9934">> :> <<30879, 309>>
        @@ <<"40.7228", "-73.996", "40.8386", "-73.9426">> :> <<136388, 1364>>
        @@ <<"40.7228", "-73.996", "41.19982596636056", "-73.97041982671311">> :> <<530864, 5309>>
        @@ <<"40.7228", "-73.996", "41.200197", "-73.9934">> :> <<530846, 5308>>
        @@ <<"40.7228", "-73.996", "0.0", "-73.9934">> :> <<45281688, 452817>>
        @@ <<"40.7248", "-73.994", "40.7505", "-73.9934">> :> <<28582, 286>>
        @@ <<"40.7248", "-73.994", "40.8386", "-73.9426">> :> <<133736, 1337>>
        @@ <<"40.7248", "-73.994", "41.19982596636056", "-73.97041982671311">> :> <<528576, 5286>>
        @@ <<"40.7248", "-73.994", "41.200197", "-73.9934">> :> <<528618, 5286>>
        @@ <<"40.7248", "-73.994", "0.0", "-73.9934">> :> <<45283912, 452839>>
        @@ <<"40.726800000000004", "-73.992", "40.7505", "-73.9934">> :> <<26380, 264>>
        @@ <<"40.726800000000004", "-73.992", "40.8386", "-73.9426">> :> <<131090, 1311>>
        @@ <<"40.726800000000004", "-73.992", "41.19982596636056", "-73.97041982671311">> :> <<526293, 5263>>
        @@ <<"40.726800000000004", "-73.992", "41.200197", "-73.9934">> :> <<526395, 5264>>
        @@ <<"40.726800000000004", "-73.992", "0.0", "-73.9934">> :> <<45286136, 452861>>
        @@ <<"40.7288", "-73.99", "40.7505", "-73.9934">> :> <<24299, 243>>
        @@ <<"40.7288", "-73.99", "40.8386", "-73.9426">> :> <<128449, 1284>>
        @@ <<"40.7288", "-73.99", "41.19982596636056", "-73.97041982671311">> :> <<524015, 5240>>
        @@ <<"40.7288", "-73.99", "41.200197", "-73.9934">> :> <<524178, 5242>>
        @@ <<"40.7288", "-73.99", "0.0", "-73.9934">> :> <<45288360, 452884>>
        @@ <<"40.7308", "-73.988", "40.7505", "-73.9934">> :> <<22373, 224>>
        @@ <<"40.7308", "-73.988", "40.8386", "-73.9426">> :> <<125816, 1258>>
        @@ <<"40.7308", "-73.988", "41.19982596636056", "-73.97041982671311">> :> <<521742, 5217>>
        @@ <<"40.7308", "-73.988", "41.200197", "-73.9934">> :> <<521966, 5220>>
        @@ <<"40.7308", "-73.988", "0.0", "-73.9934">> :> <<45290584, 452906>> )
    @@ (   <<"40.732800000000005", "-73.986", "40.7505", "-73.9934">> :> <<20646, 206>>
        @@ <<"40.732800000000005", "-73.986", "40.8386", "-73.9426">> :> <<123189, 1232>>
        @@ <<"40.732800000000005", "-73.986", "41.19982596636056", "-73.97041982671311">> :> <<519474, 5195>>
        @@ <<"40.732800000000005", "-73.986", "41.200197", "-73.9934">> :> <<519759, 5198>>
        @@ <<"40.732800000000005", "-73.986", "0.0", "-73.9934">> :> <<45292808, 452928>>
        @@ <<"40.7348", "-73.984", "40.7505", "-73.9934">> :> <<19170, 192>>
        @@ <<"40.7348", "-73.984", "40.8386", "-73.9426">> :> <<120569, 1206>>
        @@ <<"40.7348", "-73.984", "41.19982596636056", "-73.97041982671311">> :> <<517211, 5172>>
        @@ <<"40.7348", "-73.984", "41.200197", "-73.9934">> :> <<517559, 5176>>
        @@ <<"40.7348", "-73.984", "0.0", "-73.9934">> :> <<45295032, 452950>>
        @@ <<"40.7368", "-73.982", "40.7505", "-73.9934">> :> <<18009, 180>>
        @@ <<"40.7368", "-73.982", "40.8386", "-73.9426">> :> <<117957, 1180>>
        @@ <<"40.7368", "-73.982", "41.19982596636056", "-73.97041982671311">> :> <<514954, 5150>>
        @@ <<"40.7368", "-73.982", "41.200197", "-73.9934">> :> <<515363, 5154>>
        @@ <<"40.7368", "-73.982", "0.0", "-73.9934">> :> <<45297257, 452973>>
        @@ <<"40.738800000000005", "-73.98", "40.7505", "-73.9934">> :> <<17225, 172>>
        @@ <<"40.738800000000005", "-73.98", "40.8386", "-73.9426">> :> <<115353, 1154>>
        @@ <<"40.738800000000005", "-73.98", "41.19982596636056", "-73.97041982671311">> :> <<512701, 5127>>
        @@ <<"40.738800000000005", "-73.98", "41.200197", "-73.9934">> :> <<513174, 5132>>
        @@ <<"40.738800000000005", "-73.98", "0.0", "-73.9934">> :> <<45299481, 452995>>
        @@ <<"40.7408", "-73.978", "40.7505", "-73.9934">> :> <<16872, 169>>
        @@ <<"40.7408", "-73.978", "40.8386", "-73.9426">> :> <<112759, 1128>>
        @@ <<"40.7408", "-73.978", "41.19982596636056", "-73.97041982671311">> :> <<510454, 5105>>
        @@ <<"40.7408", "-73.978", "41.200197", "-73.9934">> :> <<510990, 5110>>
        @@ <<"40.7408", "-73.978", "0.0", "-73.9934">> :> <<45301706, 453017>>
        @@ <<"40.7428", "-73.976", "40.7505", "-73.9934">> :> <<16976, 170>>
        @@ <<"40.7428", "-73.976", "40.8386", "-73.9426">> :> <<110174, 1102>>
        @@ <<"40.7428", "-73.976", "41.19982596636056", "-73.97041982671311">> :> <<508212, 5082>>
        @@ <<"40.7428", "-73.976", "41.200197", "-73.9934">> :> <<508813, 5088>>
        @@ <<"40.7428", "-73.976", "0.0", "-73.9934">> :> <<45303930, 453039>>
        @@ <<"40.7448", "-73.974", "40.7505", "-73.9934">> :> <<17529, 175>>
        @@ <<"40.7448", "-73.974", "40.8386", "-73.9426">> :> <<107599, 1076>>
        @@ <<"40.7448", "-73.974", "41.19982596636056", "-73.97041982671311">> :> <<505975, 5060>>
        @@ <<"40.7448", "-73.974", "41.200197", "-73.9934">> :> <<506641, 5066>>
        @@ <<"40.7448", "-73.974", "0.0", "-73.9934">> :> <<45306155, 453062>>
        @@ <<"40.7468", "-73.972", "40.7505", "-73.9934">> :> <<18491, 185>>
        @@ <<"40.7468", "-73.972", "40.8386", "-73.9426">> :> <<105035, 1050>>
        @@ <<"40.7468", "-73.972", "41.19982596636056", "-73.97041982671311">> :> <<503744, 5037>>
        @@ <<"40.7468", "-73.972", "41.200197", "-73.9934">> :> <<504475, 5045>>
        @@ <<"40.7468", "-73.972", "0.0", "-73.9934">> :> <<45308380, 453084>>
        @@ <<"40.7488", "-73.97", "40.7505", "-73.9934">> :> <<19803, 198>>
        @@ <<"40.7488", "-73.97", "40.8386", "-73.9426">> :> <<102483, 1025>>
        @@ <<"40.7488", "-73.97", "41.19982596636056", "-73.97041982671311">> :> <<501519, 5015>>
        @@ <<"40.7488", "-73.97", "41.200197", "-73.9934">> :> <<502315, 5023>>
        @@ <<"40.7488", "-73.97", "0.0", "-73.9934">> :> <<45310605, 453106>>
        @@ <<"40.7508", "-73.968", "40.7505", "-73.9934">> :> <<21399, 214>>
        @@ <<"40.7508", "-73.968", "40.8386", "-73.9426">> :> <<99944, 999>>
        @@ <<"40.7508", "-73.968", "41.19982596636056", "-73.97041982671311">> :> <<499299, 4993>>
        @@ <<"40.7508", "-73.968", "41.200197", "-73.9934">> :> <<500162, 5002>>
        @@ <<"40.7508", "-73.968", "0.0", "-73.9934">> :> <<45312830, 453128>> )
    @@ (   <<"40.7528", "-73.966", "40.7505", "-73.9934">> :> <<23222, 232>>
        @@ <<"40.7528", "-73.966", "40.8386", "-73.9426">> :> <<97418, 974>>
        @@ <<"40.7528", "-73.966", "41.19982596636056", "-73.97041982671311">> :> <<497085, 4971>>
        @@ <<"40.7528", "-73.966", "41.200197", "-73.9934">> :> <<498015, 4980>>
        @@ <<"40.7528", "-73.966", "0.0", "-73.9934">> :> <<45315055, 453151>>
        @@ <<"40.7548", "-73.964", "40.7505", "-73.9934">> :> <<25223, 252>>
        @@ <<"40.7548", "-73.964", "40.8386", "-73.9426">> :> <<94907, 949>>
        @@ <<"40.7548", "-73.964", "41.19982596636056", "-73.97041982671311">> :> <<494876, 4949>>
        @@ <<"40.7548", "-73.964", "41.200197", "-73.9934">> :> <<495874, 4959>>
        @@ <<"40.7548", "-73.964", "0.0", "-73.9934">> :> <<45317280, 453173>>
        @@ <<"40.7568", "-73.962", "40.7505", "-73.9934">> :> <<27362, 274>>
        @@ <<"40.7568", "-73.962", "40.8386", "-73.9426">> :> <<92412, 924>>
        @@ <<"40.7568", "-73.962", "41.19982596636056", "-73.97041982671311">> :> <<492674, 4927>>
        @@ <<"40.7568", "-73.962", "41.200197", "-73.9934">> :> <<493740, 4937>>
        @@ <<"40.7568", "-73.962", "0.0", "-73.9934">> :> <<45319505, 453195>>
        @@ <<"40.7588", "-73.96", "40.7505", "-73.9934">> :> <<29609, 296>>
        @@ <<"40.7588", "-73.96", "40.8386", "-73.9426">> :> <<89935, 899>>
        @@ <<"40.7588", "-73.96", "41.19982596636056", "-73.97041982671311">> :> <<490477, 4905>>
        @@ <<"40.7588", "-73.96", "41.200197", "-73.9934">> :> <<491612, 4916>>
        @@ <<"40.7588", "-73.96", "0.0", "-73.9934">> :> <<45321731, 453217>>
        @@ <<"40.7608", "-73.958", "40.7505", "-73.9934">> :> <<31942, 319>>
        @@ <<"40.7608", "-73.958", "40.8386", "-73.9426">> :> <<87476, 875>>
        @@ <<"40.7608", "-73.958", "41.19982596636056", "-73.97041982671311">> :> <<488286, 4883>>
        @@ <<"40.7608", "-73.958", "41.200197", "-73.9934">> :> <<489491, 4895>>
        @@ <<"40.7608", "-73.958", "0.0", "-73.9934">> :> <<45323956, 453240>>
        @@ <<"40.7628", "-73.956", "40.7505", "-73.9934">> :> <<34343, 343>>
        @@ <<"40.7628", "-73.956", "40.8386", "-73.9426">> :> <<85038, 850>>
        @@ <<"40.7628", "-73.956", "41.19982596636056", "-73.97041982671311">> :> <<486102, 4861>>
        @@ <<"40.7628", "-73.956", "41.200197", "-73.9934">> :> <<487376, 4874>>
        @@ <<"40.7628", "-73.956", "0.0", "-73.9934">> :> <<45326182, 453262>>
        @@ <<"40.7648", "-73.954", "40.7505", "-73.9934">> :> <<36799, 368>>
        @@ <<"40.7648", "-73.954", "40.8386", "-73.9426">> :> <<82621, 826>>
        @@ <<"40.7648", "-73.954", "41.19982596636056", "-73.97041982671311">> :> <<483924, 4839>>
        @@ <<"40.7648", "-73.954", "41.200197", "-73.9934">> :> <<485268, 4853>>
        @@ <<"40.7648", "-73.954", "0.0", "-73.9934">> :> <<45328407, 453284>>
        @@ <<"40.7668", "-73.952", "40.7505", "-73.9934">> :> <<39299, 393>>
        @@ <<"40.7668", "-73.952", "40.8386", "-73.9426">> :> <<80230, 802>>
        @@ <<"40.7668", "-73.952", "41.19982596636056", "-73.97041982671311">> :> <<481752, 4818>>
        @@ <<"40.7668", "-73.952", "41.200197", "-73.9934">> :> <<483167, 4832>>
        @@ <<"40.7668", "-73.952", "0.0", "-73.9934">> :> <<45330633, 453306>>
        @@ <<"40.7688", "-73.95", "40.7505", "-73.9934">> :> <<41836, 418>>
        @@ <<"40.7688", "-73.95", "40.8386", "-73.9426">> :> <<77864, 779>>
        @@ <<"40.7688", "-73.95", "41.19982596636056", "-73.97041982671311">> :> <<479586, 4796>>
        @@ <<"40.7688", "-73.95", "41.200197", "-73.9934">> :> <<481073, 4811>>
        @@ <<"40.7688", "-73.95", "0.0", "-73.9934">> :> <<45332859, 453329>>
        @@ <<"40.7708", "-73.948", "40.7505", "-73.9934">> :> <<44404, 444>>
        @@ <<"40.7708", "-73.948", "40.8386", "-73.9426">> :> <<75528, 755>>
        @@ <<"40.7708", "-73.948", "41.19982596636056", "-73.97041982671311">> :> <<477427, 4774>>
        @@ <<"40.7708", "-73.948", "41.200197", "-73.9934">> :> <<478986, 4790>>
        @@ <<"40.7708", "-73.948", "0.0", "-73.9934">> :> <<45335085, 453351>> )
    @@ (   <<"40.772800000000004", "-73.946", "40.7505", "-73.9934">> :> <<46996, 470>>
        @@ <<"40.772800000000004", "-73.946", "40.8386", "-73.9426">> :> <<73223, 732>>
        @@ <<"40.772800000000004", "-73.946", "41.19982596636056", "-73.97041982671311">> :> <<475274, 4753>>
        @@ <<"40.772800000000004", "-73.946", "41.200197", "-73.9934">> :> <<476907, 4769>>
        @@ <<"40.772800000000004", "-73.946", "0.0", "-73.9934">> :> <<45337311, 453373>>
        @@ <<"40.7748", "-73.944", "40.7505", "-73.9934">> :> <<49610, 496>>
        @@ <<"40.7748", "-73.944", "40.8386", "-73.9426">> :> <<70953, 710>>
        @@ <<"40.7748", "-73.944", "41.19982596636056", "-73.97041982671311">> :> <<473128, 4731>>
        @@ <<"40.7748", "-73.944", "41.200197", "-73.9934">> :> <<474834, 4748>>
        @@ <<"40.7748", "-73.944", "0.0", "-73.9934">> :> <<45339537, 453395>>
        @@ <<"40.7768", "-73.94200000000001", "40.7505", "-73.9934">> :> <<52242, 522>>
        @@ <<"40.7768", "-73.94200000000001", "40.8386", "-73.9426">> :> <<68721, 687>>
        @@ <<"40.7768", "-73.94200000000001", "41.19982596636056", "-73.97041982671311">> :> <<470988, 4710>>
        @@ <<"40.7768", "-73.94200000000001", "41.200197", "-73.9934">> :> <<472769, 4728>>
        @@ <<"40.7768", "-73.94200000000001", "0.0", "-73.9934">> :> <<45341763, 453418>>
        @@ <<"40.778800000000004", "-73.94", "40.7505", "-73.9934">> :> <<54890, 549>>
        @@ <<"40.778800000000004", "-73.94", "40.8386", "-73.9426">> :> <<66531, 665>>
        @@ <<"40.778800000000004", "-73.94", "41.19982596636056", "-73.97041982671311">> :> <<468856, 4689>>
        @@ <<"40.778800000000004", "-73.94", "41.200197", "-73.9934">> :> <<470711, 4707>>
        @@ <<"40.778800000000004", "-73.94", "0.0", "-73.9934">> :> <<45343989, 453440>>
        @@ <<"40.7808", "-73.938", "40.7505", "-73.9934">> :> <<57550, 575>>
        @@ <<"40.7808", "-73.938", "40.8386", "-73.9426">> :> <<64388, 644>>
        @@ <<"40.7808", "-73.938", "41.19982596636056", "-73.97041982671311">> :> <<466730, 4667>>
        @@ <<"40.7808", "-73.938", "41.200197", "-73.9934">> :> <<468661, 4687>>
        @@ <<"40.7808", "-73.938", "0.0", "-73.9934">> :> <<45346216, 453462>>
        @@ <<"40.7828", "-73.936", "40.7505", "-73.9934">> :> <<60223, 602>>
        @@ <<"40.7828", "-73.936", "40.8386", "-73.9426">> :> <<62295, 623>>
        @@ <<"40.7828", "-73.936", "41.19982596636056", "-73.97041982671311">> :> <<464611, 4646>>
        @@ <<"40.7828", "-73.936", "41.200197", "-73.9934">> :> <<466618, 4666>>
        @@ <<"40.7828", "-73.936", "0.0", "-73.9934">> :> <<45348442, 453484>>
        @@ <<"40.784800000000004", "-73.934", "40.7505", "-73.9934">> :> <<62905, 629>>
        @@ <<"40.784800000000004", "-73.934", "40.8386", "-73.9426">> :> <<60260, 603>>
        @@ <<"40.784800000000004", "-73.934", "41.19982596636056", "-73.97041982671311">> :> <<462500, 4625>>
        @@ <<"40.784800000000004", "-73.934", "41.200197", "-73.9934">> :> <<464583, 4646>>
        @@ <<"40.784800000000004", "-73.934", "0.0", "-73.9934">> :> <<45350669, 453507>>
        @@ <<"40.7868", "-73.932", "40.7505", "-73.9934">> :> <<65597, 656>>
        @@ <<"40.7868", "-73.932", "40.8386", "-73.9426">> :> <<58286, 583>>
        @@ <<"40.7868", "-73.932", "41.19982596636056", "-73.97041982671311">> :> <<460395, 4604>>
        @@ <<"40.7868", "-73.932", "41.200197", "-73.9934">> :> <<462556, 4626>>
        @@ <<"40.7868", "-73.932", "0.0", "-73.9934">> :> <<45352895, 453529>>
        @@ <<"40.7888", "-73.93", "40.7505", "-73.9934">> :> <<68296, 683>>
        @@ <<"40.7888", "-73.93", "40.8386", "-73.9426">> :> <<56382, 564>>
        @@ <<"40.7888", "-73.93", "41.19982596636056", "-73.97041982671311">> :> <<458298, 4583>>
        @@ <<"40.7888", "-73.93", "41.200197", "-73.9934">> :> <<460537, 4605>>
        @@ <<"40.7888", "-73.93", "0.0", "-73.9934">> :> <<45355122, 453551>>
        @@ <<"40.790800000000004", "-73.928", "40.7505", "-73.9934">> :> <<71002, 710>>
        @@ <<"40.790800000000004", "-73.928", "40.8386", "-73.9426">> :> <<54553, 546>>
        @@ <<"40.790800000000004", "-73.928", "41.19982596636056", "-73.97041982671311">> :> <<456208, 4562>>
        @@ <<"40.790800000000004", "-73.928", "41.200197", "-73.9934">> :> <<458526, 4585>>
        @@ <<"40.790800000000004", "-73.928", "0.0", "-73.9934">> :> <<45357349, 453573>> )
    @@ (   <<"40.7928", "-73.926", "40.7505", "-73.9934">> :> <<73714, 737>>
        @@ <<"40.7928", "-73.926", "40.8386", "-73.9426">> :> <<52809, 528>>
        @@ <<"40.7928", "-73.926", "41.19982596636056", "-73.97041982671311">> :> <<454125, 4541>>
        @@ <<"40.7928", "-73.926", "41.200197", "-73.9934">> :> <<456523, 4565>>
        @@ <<"40.7928", "-73.926", "0.0", "-73.9934">> :> <<45359576, 453596>>
        @@ <<"40.7948", "-73.924", "40.7505", "-73.9934">> :> <<76432, 764>>
        @@ <<"40.7948", "-73.924", "40.8386", "-73.9426">> :> <<51157, 512>>
        @@ <<"40.7948", "-73.924", "41.19982596636056", "-73.97041982671311">> :> <<452051, 4521>>
        @@ <<"40.7948", "-73.924", "41.200197", "-73.9934">> :> <<454528, 4545>>
        @@ <<"40.7948", "-73.924", "0.0", "-73.9934">> :> <<45361803, 453618>>
        @@ <<"40.796800000000005", "-73.922", "40.7505", "-73.9934">> :> <<79155, 792>>
        @@ <<"40.796800000000005", "-73.922", "40.8386", "-73.9426">> :> <<49607, 496>>
        @@ <<"40.796800000000005", "-73.922", "41.19982596636056", "-73.97041982671311">> :> <<449983, 4500>>
        @@ <<"40.796800000000005", "-73.922", "41.200197", "-73.9934">> :> <<452542, 4525>>
        @@ <<"40.796800000000005", "-73.922", "0.0", "-73.9934">> :> <<45364030, 453640>>
        @@ <<"40.7988", "-73.92", "40.7505", "-73.9934">> :> <<81882, 819>>
        @@ <<"40.7988", "-73.92", "40.8386", "-73.9426">> :> <<48169, 482>>
        @@ <<"40.7988", "-73.92", "41.19982596636056", "-73.97041982671311">> :> <<447924, 4479>>
        @@ <<"40.7988", "-73.92", "41.200197", "-73.9934">> :> <<450564, 4506>>
        @@ <<"40.7988", "-73.92", "0.0", "-73.9934">> :> <<45366257, 453663>>
        @@ <<"40.8008", "-73.918", "40.7505", "-73.9934">> :> <<84613, 846>>
        @@ <<"40.8008", "-73.918", "40.8386", "-73.9426">> :> <<46853, 469>>
        @@ <<"40.8008", "-73.918", "41.19982596636056", "-73.97041982671311">> :> <<445872, 4459>>
        @@ <<"40.8008", "-73.918", "41.200197", "-73.9934">> :> <<448595, 4486>>
        @@ <<"40.8008", "-73.918", "0.0", "-73.9934">> :> <<45368484, 453685>>
        @@ <<"40.802800000000005", "-73.916", "40.7505", "-73.9934">> :> <<87348, 873>>
        @@ <<"40.802800000000005", "-73.916", "40.8386", "-73.9426">> :> <<45670, 457>>
        @@ <<"40.802800000000005", "-73.916", "41.19982596636056", "-73.97041982671311">> :> <<443829, 4438>>
        @@ <<"40.802800000000005", "-73.916", "41.200197", "-73.9934">> :> <<446634, 4466>>
        @@ <<"40.802800000000005", "-73.916", "0.0", "-73.9934">> :> <<45370711, 453707>>
        @@ <<"40.8048", "-73.914", "40.7505", "-73.9934">> :> <<90086, 901>>
        @@ <<"40.8048", "-73.914", "40.8386", "-73.9426">> :> <<44629, 446>>
        @@ <<"40.8048", "-73.914", "41.19982596636056", "-73.97041982671311">> :> <<441794, 4418>>
        @@ <<"40.8048", "-73.914", "41.200197", "-73.9934">> :> <<444682, 4447>>
        @@ <<"40.8048", "-73.914", "0.0", "-73.9934">> :> <<45372939, 453729>>
        @@ <<"40.8068", "-73.912", "40.7505", "-73.9934">> :> <<92827, 928>>
        @@ <<"40.8068", "-73.912", "40.8386", "-73.9426">> :> <<43742, 437>>
        @@ <<"40.8068", "-73.912", "41.19982596636056", "-73.97041982671311">> :> <<439766, 4398>>
        @@ <<"40.8068", "-73.912", "41.200197", "-73.9934">> :> <<442739, 4427>>
        @@ <<"40.8068", "-73.912", "0.0", "-73.9934">> :> <<45375166, 453752>>
        @@ <<"40.8088", "-73.91", "40.7505", "-73.9934">> :> <<95571, 956>>
        @@ <<"40.8088", "-73.91", "40.8386", "-73.9426">> :> <<43017, 430>>
        @@ <<"40.8088", "-73.91", "41.19982596636056", "-73.97041982671311">> :> <<437748, 4377>>
        @@ <<"40.8088", "-73.91", "41.200197", "-73.9934">> :> <<440805, 4408>>
        @@ <<"40.8088", "-73.91", "0.0", "-73.9934">> :> <<45377394, 453774>>
        @@ <<"40.8108", "-73.908", "40.7505", "-73.9934">> :> <<98317, 983>>
        @@ <<"40.8108", "-73.908", "40.8386", "-73.9426">> :> <<42464, 425>>
        @@ <<"40.8108", "-73.908", "41.19982596636056", "-73.97041982671311">> :> <<435737, 4357>>
        @@ <<"40.8108", "-73.908", "41.200197", "-73.9934">> :> <<438880, 4389>>
        @@ <<"40.8108", "-73.908", "0.0", "-73.9934">> :> <<45379622, 453796>> )
    @@ (   <<"40.9538", "-77.5268", "40.7505", "-73.9934">> :> <<2980246, 29802>>
        @@ <<"40.9538", "-77.5268", "40.8386", "-73.9426">> :> <<3015099, 30151>>
        @@ <<"40.9538", "-77.5268", "41.19982596636056", "-73.97041982671311">> :> <<2993343, 29933>>
        @@ <<"40.9538", "-77.5268", "41.200197", "-73.9934">> :> <<2974195, 29742>>
        @@ <<"40.9538", "-77.5268", "0.0", "-73.9934">> :> <<45677921, 456779>>
        @@ <<"40.973800000000004", "-77.5068", "40.7505", "-73.9934">> :> <<2964811, 29648>>
        @@ <<"40.973800000000004", "-77.5068", "40.8386", "-73.9426">> :> <<2998887, 29989>>
        @@ <<"40.973800000000004", "-77.5068", "41.19982596636056", "-73.97041982671311">> :> <<2974243, 29742>>
        @@ <<"40.973800000000004", "-77.5068", "41.200197", "-73.9934">> :> <<2955083, 29551>>
        @@ <<"40.973800000000004", "-77.5068", "0.0", "-73.9934">> :> <<45698492, 456985>>
        @@ <<"40.9938", "-77.48679999999999", "40.7505", "-73.9934">> :> <<2949568, 29496>>
        @@ <<"40.9938", "-77.48679999999999", "40.8386", "-73.9426">> :> <<2982857, 29829>>
        @@ <<"40.9938", "-77.48679999999999", "41.19982596636056", "-73.97041982671311">> :> <<2955291, 29553>>
        @@ <<"40.9938", "-77.48679999999999", "41.200197", "-73.9934">> :> <<2936121, 29361>>
        @@ <<"40.9938", "-77.48679999999999", "0.0", "-73.9934">> :> <<45719075, 457191>>
        @@ <<"41.0138", "-77.46679999999999", "40.7505", "-73.9934">> :> <<2934521, 29345>>
        @@ <<"41.0138", "-77.46679999999999", "40.8386", "-73.9426">> :> <<2967012, 29670>>
        @@ <<"41.0138", "-77.46679999999999", "41.19982596636056", "-73.97041982671311">> :> <<2936492, 29365>>
        @@ <<"41.0138", "-77.46679999999999", "41.200197", "-73.9934">> :> <<2917312, 29173>>
        @@ <<"41.0138", "-77.46679999999999", "0.0", "-73.9934">> :> <<45739668, 457397>>
        @@ <<"41.0338", "-77.4468", "40.7505", "-73.9934">> :> <<2919672, 29197>>
        @@ <<"41.0338", "-77.4468", "40.8386", "-73.9426">> :> <<2951356, 29514>>
        @@ <<"41.0338", "-77.4468", "41.19982596636056", "-73.97041982671311">> :> <<2917848, 29178>>
        @@ <<"41.0338", "-77.4468", "41.200197", "-73.9934">> :> <<2898658, 28987>>
        @@ <<"41.0338", "-77.4468", "0.0", "-73.9934">> :> <<45760273, 457603>>
        @@ <<"41.0538", "-77.4268", "40.7505", "-73.9934">> :> <<2905026, 29050>>
        @@ <<"41.0538", "-77.4268", "40.8386", "-73.9426">> :> <<2935891, 29359>>
        @@ <<"41.0538", "-77.4268", "41.19982596636056", "-73.97041982671311">> :> <<2899360, 28994>>
        @@ <<"41.0538", "-77.4268", "41.200197", "-73.9934">> :> <<2880162, 28802>>
        @@ <<"41.0538", "-77.4268", "0.0", "-73.9934">> :> <<45780888, 457809>>
        @@ <<"41.0738", "-77.40679999999999", "40.7505", "-73.9934">> :> <<2890584, 28906>>
        @@ <<"41.0738", "-77.40679999999999", "40.8386", "-73.9426">> :> <<2920620, 29206>>
        @@ <<"41.0738", "-77.40679999999999", "41.19982596636056", "-73.97041982671311">> :> <<2881034, 28810>>
        @@ <<"41.0738", "-77.40679999999999", "41.200197", "-73.9934">> :> <<2861828, 28618>>
        @@ <<"41.0738", "-77.40679999999999", "0.0", "-73.9934">> :> <<45801515, 458015>>
        @@ <<"41.0938", "-77.3868", "40.7505", "-73.9934">> :> <<2876349, 28763>>
        @@ <<"41.0938", "-77.3868", "40.8386", "-73.9426">> :> <<2905546, 29055>>
        @@ <<"41.0938", "-77.3868", "41.19982596636056", "-73.97041982671311">> :> <<2862871, 28629>>
        @@ <<"41.0938", "-77.3868", "41.200197", "-73.9934">> :> <<2843658, 28437>>
        @@ <<"41.0938", "-77.3868", "0.0", "-73.9934">> :> <<45822153, 458222>>
        @@ <<"41.1138", "-77.3668", "40.7505", "-73.9934">> :> <<2862325, 28623>>
        @@ <<"41.1138", "-77.3668", "40.8386", "-73.9426">> :> <<2890672, 28907>>
        @@ <<"41.1138", "-77.3668", "41.19982596636056", "-73.97041982671311">> :> <<2844874, 28449>>
        @@ <<"41.1138", "-77.3668", "41.200197", "-73.9934">> :> <<2825656, 28257>>
        @@ <<"41.1138", "-77.3668", "0.0", "-73.9934">> :> <<45842801, 458428>>
        @@ <<"41.1338", "-77.34679999999999", "40.7505", "-73.9934">> :> <<2848515, 28485>>
        @@ <<"41.1338", "-77.34679999999999", "40.8386", "-73.9426">> :> <<2876001, 28760>>
        @@ <<"41.1338", "-77.34679999999999", "41.19982596636056", "-73.97041982671311">> :> <<2827047, 28270>>
        @@ <<"41.1338", "-77.34679999999999", "41.200197", "-73.9934">> :> <<2807824, 28078>>
        @@ <<"41.1338", "-77.34679999999999", "0.0", "-73.9934">> :> <<45863461, 458635>> )
    @@ (   <<"41.153800000000004", "-77.32679999999999", "40.7505", "-73.9934">> :> <<2834921, 28349>>
        @@ <<"41.153800000000004", "-77.32679999999999", "40.8386", "-73.9426">> :> <<2861537, 28615>>
        @@ <<"41.153800000000004", "-77.32679999999999", "41.19982596636056", "-73.97041982671311">> :> <<2809393, 28094>>
        @@ <<"41.153800000000004", "-77.32679999999999", "41.200197", "-73.9934">> :> <<2790166, 27902>>
        @@ <<"41.153800000000004", "-77.32679999999999", "0.0", "-73.9934">> :> <<45884132, 458841>>
        @@ <<"41.1738", "-77.3068", "40.7505", "-73.9934">> :> <<2821547, 28215>>
        @@ <<"41.1738", "-77.3068", "40.8386", "-73.9426">> :> <<2847281, 28473>>
        @@ <<"41.1738", "-77.3068", "41.19982596636056", "-73.97041982671311">> :> <<2791915, 27919>>
        @@ <<"41.1738", "-77.3068", "41.200197", "-73.9934">> :> <<2772686, 27727>>
        @@ <<"41.1738", "-77.3068", "0.0", "-73.9934">> :> <<45904813, 459048>>
        @@ <<"41.1938", "-77.2868", "40.7505", "-73.9934">> :> <<2808396, 28084>>
        @@ <<"41.1938", "-77.2868", "40.8386", "-73.9426">> :> <<2833238, 28332>>
        @@ <<"41.1938", "-77.2868", "41.19982596636056", "-73.97041982671311">> :> <<2774616, 27746>>
        @@ <<"41.1938", "-77.2868", "41.200197", "-73.9934">> :> <<2755385, 27554>>
        @@ <<"41.1938", "-77.2868", "0.0", "-73.9934">> :> <<45925506, 459255>>
        @@ <<"41.2138", "-77.26679999999999", "40.7505", "-73.9934">> :> <<2795471, 27955>>
        @@ <<"41.2138", "-77.26679999999999", "40.8386", "-73.9426">> :> <<2819410, 28194>>
        @@ <<"41.2138", "-77.26679999999999", "41.19982596636056", "-73.97041982671311">> :> <<2757499, 27575>>
        @@ <<"41.2138", "-77.26679999999999", "41.200197", "-73.9934">> :> <<2738269, 27383>>
        @@ <<"41.2138", "-77.26679999999999", "0.0", "-73.9934">> :> <<45946209, 459462>>
        @@ <<"41.2338", "-77.2468", "40.7505", "-73.9934">> :> <<2782775, 27828>>
        @@ <<"41.2338", "-77.2468", "40.8386", "-73.9426">> :> <<2805800, 28058>>
        @@ <<"41.2338", "-77.2468", "41.19982596636056", "-73.97041982671311">> :> <<2740569, 27406>>
        @@ <<"41.2338", "-77.2468", "41.200197", "-73.9934">> :> <<2721339, 27213>>
        @@ <<"41.2338", "-77.2468", "0.0", "-73.9934">> :> <<45966924, 459669>>
        @@ <<"41.2538", "-77.2268", "40.7505", "-73.9934">> :> <<2770311, 27703>>
        @@ <<"41.2538", "-77.2268", "40.8386", "-73.9426">> :> <<2792412, 27924>>
        @@ <<"41.2538", "-77.2268", "41.19982596636056", "-73.97041982671311">> :> <<2723827, 27238>>
        @@ <<"41.2538", "-77.2268", "41.200197", "-73.9934">> :> <<2704600, 27046>>
        @@ <<"41.2538", "-77.2268", "0.0", "-73.9934">> :> <<45987649, 459876>>
        @@ <<"41.2738", "-77.2068", "40.7505", "-73.9934">> :> <<2758082, 27581>>
        @@ <<"41.2738", "-77.2068", "40.8386", "-73.9426">> :> <<2779249, 27792>>
        @@ <<"41.2738", "-77.2068", "41.19982596636056", "-73.97041982671311">> :> <<2707278, 27073>>
        @@ <<"41.2738", "-77.2068", "41.200197", "-73.9934">> :> <<2688055, 26881>>
        @@ <<"41.2738", "-77.2068", "0.0", "-73.9934">> :> <<46008385, 460084>>
        @@ <<"41.293800000000005", "-77.18679999999999", "40.7505", "-73.9934">> :> <<2746090, 27461>>
        @@ <<"41.293800000000005", "-77.18679999999999", "40.8386", "-73.9426">> :> <<2766313, 27663>>
        @@ <<"41.293800000000005", "-77.18679999999999", "41.19982596636056", "-73.97041982671311">> :> <<2690925, 26909>>
        @@ <<"41.293800000000005", "-77.18679999999999", "41.200197", "-73.9934">> :> <<2671707, 26717>>
        @@ <<"41.293800000000005", "-77.18679999999999", "0.0", "-73.9934">> :> <<46029132, 460291>>
        @@ <<"41.3138", "-77.1668", "40.7505", "-73.9934">> :> <<2734340, 27343>>
        @@ <<"41.3138", "-77.1668", "40.8386", "-73.9426">> :> <<2753609, 27536>>
        @@ <<"41.3138", "-77.1668", "41.19982596636056", "-73.97041982671311">> :> <<2674772, 26748>>
        @@ <<"41.3138", "-77.1668", "41.200197", "-73.9934">> :> <<2655560, 26556>>
        @@ <<"41.3138", "-77.1668", "0.0", "-73.9934">> :> <<46049890, 460499>>
        @@ <<"41.333800000000004", "-77.1468", "40.7505", "-73.9934">> :> <<2722834, 27228>>
        @@ <<"41.333800000000004", "-77.1468", "40.8386", "-73.9426">> :> <<2741138, 27411>>
        @@ <<"41.333800000000004", "-77.1468", "41.19982596636056", "-73.97041982671311">> :> <<2658822, 26588>>
        @@ <<"41.333800000000004", "-77.1468", "41.200197", "-73.9934">> :> <<2639618, 26396>>
        @@ <<"41.333800000000004", "-77.1468", "0.0", "-73.9934">> :> <<46070658, 460707>> )
    @@ (   <<"41.3538", "-77.12679999999999", "40.7505", "-73.9934">> :> <<2711576, 27116>>
        @@ <<"41.3538", "-77.12679999999999", "40.8386", "-73.9426">> :> <<2728905, 27289>>
        @@ <<"41.3538", "-77.12679999999999", "41.19982596636056", "-73.97041982671311">> :> <<2643079, 26431>>
        @@ <<"41.3538", "-77.12679999999999", "41.200197", "-73.9934">> :> <<2623885, 26239>>
        @@ <<"41.3538", "-77.12679999999999", "0.0", "-73.9934">> :> <<46091437, 460914>>
        @@ <<"41.3738", "-77.10679999999999", "40.7505", "-73.9934">> :> <<2700567, 27006>>
        @@ <<"41.3738", "-77.10679999999999", "40.8386", "-73.9426">> :> <<2716911, 27169>>
        @@ <<"41.3738", "-77.10679999999999", "41.19982596636056", "-73.97041982671311">> :> <<2627546, 26275>>
        @@ <<"41.3738", "-77.10679999999999", "41.200197", "-73.9934">> :> <<2608363, 26084>>
        @@ <<"41.3738", "-77.10679999999999", "0.0", "-73.9934">> :> <<46112227, 461122>>
        @@ <<"41.3938", "-77.0868", "40.7505", "-73.9934">> :> <<2689812, 26898>>
        @@ <<"41.3938", "-77.0868", "40.8386", "-73.9426">> :> <<2705161, 27052>>
        @@ <<"41.3938", "-77.0868", "41.19982596636056", "-73.97041982671311">> :> <<2612227, 26122>>
        @@ <<"41.3938", "-77.0868", "41.200197", "-73.9934">> :> <<2593056, 25931>>
        @@ <<"41.3938", "-77.0868", "0.0", "-73.9934">> :> <<46133028, 461330>>
        @@ <<"41.4138", "-77.0668", "40.7505", "-73.9934">> :> <<2679312, 26793>>
        @@ <<"41.4138", "-77.0668", "40.8386", "-73.9426">> :> <<2693658, 26937>>
        @@ <<"41.4138", "-77.0668", "41.19982596636056", "-73.97041982671311">> :> <<2597125, 25971>>
        @@ <<"41.4138", "-77.0668", "41.200197", "-73.9934">> :> <<2577970, 25780>>
        @@ <<"41.4138", "-77.0668", "0.0", "-73.9934">> :> <<46153839, 461538>>
        @@ <<"41.4338", "-77.04679999999999", "40.7505", "-73.9934">> :> <<2669072, 26691>>
        @@ <<"41.4338", "-77.04679999999999", "40.8386", "-73.9426">> :> <<2682404, 26824>>
        @@ <<"41.4338", "-77.04679999999999", "41.19982596636056", "-73.97041982671311">> :> <<2582245, 25822>>
        @@ <<"41.4338", "-77.04679999999999", "41.200197", "-73.9934">> :> <<2563106, 25631>>
        @@ <<"41.4338", "-77.04679999999999", "0.0", "-73.9934">> :> <<46174662, 461747>>
        @@ <<"41.4538", "-77.0268", "40.7505", "-73.9934">> :> <<2659094, 26591>>
        @@ <<"41.4538", "-77.0268", "40.8386", "-73.9426">> :> <<2671403, 26714>>
        @@ <<"41.4538", "-77.0268", "41.19982596636056", "-73.97041982671311">> :> <<2567591, 25676>>
        @@ <<"41.4538", "-77.0268", "41.200197", "-73.9934">> :> <<2548469, 25485>>
        @@ <<"41.4538", "-77.0268", "0.0", "-73.9934">> :> <<46195494, 461955>>
        @@ <<"41.473800000000004", "-77.0068", "40.7505", "-73.9934">> :> <<2649380, 26494>>
        @@ <<"41.473800000000004", "-77.0068", "40.8386", "-73.9426">> :> <<2660657, 26607>>
        @@ <<"41.473800000000004", "-77.0068", "41.19982596636056", "-73.97041982671311">> :> <<2553165, 25532>>
        @@ <<"41.473800000000004", "-77.0068", "41.200197", "-73.9934">> :> <<2534063, 25341>>
        @@ <<"41.473800000000004", "-77.0068", "0.0", "-73.9934">> :> <<46216338, 462163>>
        @@ <<"41.4938", "-76.98679999999999", "40.7505", "-73.9934">> :> <<2639934, 26399>>
        @@ <<"41.4938", "-76.98679999999999", "40.8386", "-73.9426">> :> <<2650170, 26502>>
        @@ <<"41.4938", "-76.98679999999999", "41.19982596636056", "-73.97041982671311">> :> <<2538972, 25390>>
        @@ <<"41.4938", "-76.98679999999999", "41.200197", "-73.9934">> :> <<2519892, 25199>>
        @@ <<"41.4938", "-76.98679999999999", "0.0", "-73.9934">> :> <<46237192, 462372>>
        @@ <<"41.5138", "-76.96679999999999", "40.7505", "-73.9934">> :> <<2630759, 26308>>
        @@ <<"41.5138", "-76.96679999999999", "40.8386", "-73.9426">> :> <<2639944, 26399>>
        @@ <<"41.5138", "-76.96679999999999", "41.19982596636056", "-73.97041982671311">> :> <<2525015, 25250>>
        @@ <<"41.5138", "-76.96679999999999", "41.200197", "-73.9934">> :> <<2505959, 25060>>
        @@ <<"41.5138", "-76.96679999999999", "0.0", "-73.9934">> :> <<46258057, 462581>>
        @@ <<"41.5338", "-76.9468", "40.7505", "-73.9934">> :> <<2621856, 26219>>
        @@ <<"41.5338", "-76.9468", "40.8386", "-73.9426">> :> <<2629983, 26300>>
        @@ <<"41.5338", "-76.9468", "41.19982596636056", "-73.97041982671311">> :> <<2511299, 25113>>
        @@ <<"41.5338", "-76.9468", "41.200197", "-73.9934">> :> <<2492269, 24923>>
        @@ <<"41.5338", "-76.9468", "0.0", "-73.9934">> :> <<46278932, 462789>> )
    @@ (   <<"41.5538", "-76.9268", "40.7505", "-73.9934">> :> <<2613230, 26132>>
        @@ <<"41.5538", "-76.9268", "40.8386", "-73.9426">> :> <<2620290, 26203>>
        @@ <<"41.5538", "-76.9268", "41.19982596636056", "-73.97041982671311">> :> <<2497827, 24978>>
        @@ <<"41.5538", "-76.9268", "41.200197", "-73.9934">> :> <<2478825, 24788>>
        @@ <<"41.5538", "-76.9268", "0.0", "-73.9934">> :> <<46299818, 462998>>
        @@ <<"41.5738", "-76.90679999999999", "40.7505", "-73.9934">> :> <<2604882, 26049>>
        @@ <<"41.5738", "-76.90679999999999", "40.8386", "-73.9426">> :> <<2610867, 26109>>
        @@ <<"41.5738", "-76.90679999999999", "41.19982596636056", "-73.97041982671311">> :> <<2484604, 24846>>
        @@ <<"41.5738", "-76.90679999999999", "41.200197", "-73.9934">> :> <<2465631, 24656>>
        @@ <<"41.5738", "-76.90679999999999", "0.0", "-73.9934">> :> <<46320714, 463207>>
        @@ <<"41.5938", "-76.8868", "40.7505", "-73.9934">> :> <<2596815, 25968>>
        @@ <<"41.5938", "-76.8868", "40.8386", "-73.9426">> :> <<2601717, 26017>>
        @@ <<"41.5938", "-76.8868", "41.19982596636056", "-73.97041982671311">> :> <<2471632, 24716>>
        @@ <<"41.5938", "-76.8868", "41.200197", "-73.9934">> :> <<2452692, 24527>>
        @@ <<"41.5938", "-76.8868", "0.0", "-73.9934">> :> <<46341621, 463416>>
        @@ <<"41.6138", "-76.8668", "40.7505", "-73.9934">> :> <<2589032, 25890>>
        @@ <<"41.6138", "-76.8668", "40.8386", "-73.9426">> :> <<2592844, 25928>>
        @@ <<"41.6138", "-76.8668", "41.19982596636056", "-73.97041982671311">> :> <<2458917, 24589>>
        @@ <<"41.6138", "-76.8668", "41.200197", "-73.9934">> :> <<2440011, 24400>>
        @@ <<"41.6138", "-76.8668", "0.0", "-73.9934">> :> <<46362538, 463625>>
        @@ <<"41.6338", "-76.84679999999999", "40.7505", "-73.9934">> :> <<2581535, 25815>>
        @@ <<"41.6338", "-76.84679999999999", "40.8386", "-73.9426">> :> <<2584249, 25842>>
        @@ <<"41.6338", "-76.84679999999999", "41.19982596636056", "-73.97041982671311">> :> <<2446461, 24465>>
        @@ <<"41.6338", "-76.84679999999999", "41.200197", "-73.9934">> :> <<2427592, 24276>>
        @@ <<"41.6338", "-76.84679999999999", "0.0", "-73.9934">> :> <<46383466, 463835>>
        @@ <<"41.653800000000004", "-76.82679999999999", "40.7505", "-73.9934">> :> <<2574326, 25743>>
        @@ <<"41.653800000000004", "-76.82679999999999", "40.8386", "-73.9426">> :> <<2575935, 25759>>
        @@ <<"41.653800000000004", "-76.82679999999999", "41.19982596636056", "-73.97041982671311">> :> <<2434269, 24343>>
        @@ <<"41.653800000000004", "-76.82679999999999", "41.200197", "-73.9934">> :> <<2415439, 24154>>
        @@ <<"41.653800000000004", "-76.82679999999999", "0.0", "-73.9934">> :> <<46404405, 464044>>
        @@ <<"41.6738", "-76.8068", "40.7505", "-73.9934">> :> <<2567409, 25674>>
        @@ <<"41.6738", "-76.8068", "40.8386", "-73.9426">> :> <<2567906, 25679>>
        @@ <<"41.6738", "-76.8068", "41.19982596636056", "-73.97041982671311">> :> <<2422344, 24223>>
        @@ <<"41.6738", "-76.8068", "41.200197", "-73.9934">> :> <<2403556, 24036>>
        @@ <<"41.6738", "-76.8068", "0.0", "-73.9934">> :> <<46425354, 464254>>
        @@ <<"41.6938", "-76.7868", "40.7505", "-73.9934">> :> <<2560784, 25608>>
        @@ <<"41.6938", "-76.7868", "40.8386", "-73.9426">> :> <<2560163, 25602>>
        @@ <<"41.6938", "-76.7868", "41.19982596636056", "-73.97041982671311">> :> <<2410691, 24107>>
        @@ <<"41.6938", "-76.7868", "41.200197", "-73.9934">> :> <<2391947, 23919>>
        @@ <<"41.6938", "-76.7868", "0.0", "-73.9934">> :> <<46446313, 464463>>
        @@ <<"41.7138", "-76.76679999999999", "40.7505", "-73.9934">> :> <<2554455, 25545>>
        @@ <<"41.7138", "-76.76679999999999", "40.8386", "-73.9426">> :> <<2552710, 25527>>
        @@ <<"41.7138", "-76.76679999999999", "41.19982596636056", "-73.97041982671311">> :> <<2399314, 23993>>
        @@ <<"41.7138", "-76.76679999999999", "41.200197", "-73.9934">> :> <<2380616, 23806>>
        @@ <<"41.7138", "-76.76679999999999", "0.0", "-73.9934">> :> <<46467283, 464673>>
        @@ <<"41.7338", "-76.7468", "40.7505", "-73.9934">> :> <<2548423, 25484>>
        @@ <<"41.7338", "-76.7468", "40.8386", "-73.9426">> :> <<2545548, 25455>>
        @@ <<"41.7338", "-76.7468", "41.19982596636056", "-73.97041982671311">> :> <<2388215, 23882>>
        @@ <<"41.7338", "-76.7468", "41.200197", "-73.9934">> :> <<2369566, 23696>>
        @@ <<"41.7338", "-76.7468", "0.0", "-73.9934">> :> <<46488263, 464883>> )
    @@ (   <<"41.7538", "-76.7268", "40.7505", "-73.9934">> :> <<2542690, 25427>>
        @@ <<"41.7538", "-76.7268", "40.8386", "-73.9426">> :> <<2538681, 25387>>
        @@ <<"41.7538", "-76.7268", "41.19982596636056", "-73.97041982671311">> :> <<2377399, 23774>>
        @@ <<"41.7538", "-76.7268", "41.200197", "-73.9934">> :> <<2358802, 23588>>
        @@ <<"41.7538", "-76.7268", "0.0", "-73.9934">> :> <<46509253, 465093>>
        @@ <<"41.7738", "-76.7068", "40.7505", "-73.9934">> :> <<2537259, 25373>>
        @@ <<"41.7738", "-76.7068", "40.8386", "-73.9426">> :> <<2532109, 25321>>
        @@ <<"41.7738", "-76.7068", "41.19982596636056", "-73.97041982671311">> :> <<2366871, 23669>>
        @@ <<"41.7738", "-76.7068", "41.200197", "-73.9934">> :> <<2348328, 23483>>
        @@ <<"41.7738", "-76.7068", "0.0", "-73.9934">> :> <<46530254, 465303>>
        @@ <<"41.793800000000005", "-76.68679999999999", "40.7505", "-73.9934">> :> <<2532131, 25321>>
        @@ <<"41.793800000000005", "-76.68679999999999", "40.8386", "-73.9426">> :> <<2525836, 25258>>
        @@ <<"41.793800000000005", "-76.68679999999999", "41.19982596636056", "-73.97041982671311">> :> <<2356632, 23566>>
        @@ <<"41.793800000000005", "-76.68679999999999", "41.200197", "-73.9934">> :> <<2338146, 23381>>
        @@ <<"41.793800000000005", "-76.68679999999999", "0.0", "-73.9934">> :> <<46551265, 465513>>
        @@ <<"41.8138", "-76.6668", "40.7505", "-73.9934">> :> <<2527308, 25273>>
        @@ <<"41.8138", "-76.6668", "40.8386", "-73.9426">> :> <<2519864, 25199>>
        @@ <<"41.8138", "-76.6668", "41.19982596636056", "-73.97041982671311">> :> <<2346688, 23467>>
        @@ <<"41.8138", "-76.6668", "41.200197", "-73.9934">> :> <<2328262, 23283>>
        @@ <<"41.8138", "-76.6668", "0.0", "-73.9934">> :> <<46572287, 465723>>
        @@ <<"41.833800000000004", "-76.6468", "40.7505", "-73.9934">> :> <<2522791, 25228>>
        @@ <<"41.833800000000004", "-76.6468", "40.8386", "-73.9426">> :> <<2514195, 25142>>
        @@ <<"41.833800000000004", "-76.6468", "41.19982596636056", "-73.97041982671311">> :> <<2337042, 23370>>
        @@ <<"41.833800000000004", "-76.6468", "41.200197", "-73.9934">> :> <<2318678, 23187>>
        @@ <<"41.833800000000004", "-76.6468", "0.0", "-73.9934">> :> <<46593318, 465933>>
        @@ <<"41.8538", "-76.62679999999999", "40.7505", "-73.9934">> :> <<2518583, 25186>>
        @@ <<"41.8538", "-76.62679999999999", "40.8386", "-73.9426">> :> <<2508830, 25088>>
        @@ <<"41.8538", "-76.62679999999999", "41.19982596636056", "-73.97041982671311">> :> <<2327697, 23277>>
        @@ <<"41.8538", "-76.62679999999999", "41.200197", "-73.9934">> :> <<2309399, 23094>>
        @@ <<"41.8538", "-76.62679999999999", "0.0", "-73.9934">> :> <<46614361, 466144>>
        @@ <<"41.8738", "-76.60679999999999", "40.7505", "-73.9934">> :> <<2514684, 25147>>
        @@ <<"41.8738", "-76.60679999999999", "40.8386", "-73.9426">> :> <<2503771, 25038>>
        @@ <<"41.8738", "-76.60679999999999", "41.19982596636056", "-73.97041982671311">> :> <<2318657, 23187>>
        @@ <<"41.8738", "-76.60679999999999", "41.200197", "-73.9934">> :> <<2300427, 23004>>
        @@ <<"41.8738", "-76.60679999999999", "0.0", "-73.9934">> :> <<46635413, 466354>>
        @@ <<"41.8938", "-76.5868", "40.7505", "-73.9934">> :> <<2511096, 25111>>
        @@ <<"41.8938", "-76.5868", "40.8386", "-73.9426">> :> <<2499021, 24990>>
        @@ <<"41.8938", "-76.5868", "41.19982596636056", "-73.97041982671311">> :> <<2309925, 23099>>
        @@ <<"41.8938", "-76.5868", "41.200197", "-73.9934">> :> <<2291766, 22918>>
        @@ <<"41.8938", "-76.5868", "0.0", "-73.9934">> :> <<46656475, 466565>>
        @@ <<"41.9138", "-76.5668", "40.7505", "-73.9934">> :> <<2507820, 25078>>
        @@ <<"41.9138", "-76.5668", "40.8386", "-73.9426">> :> <<2494581, 24946>>
        @@ <<"41.9138", "-76.5668", "41.19982596636056", "-73.97041982671311">> :> <<2301505, 23015>>
        @@ <<"41.9138", "-76.5668", "41.200197", "-73.9934">> :> <<2283420, 22834>>
        @@ <<"41.9138", "-76.5668", "0.0", "-73.9934">> :> <<46677548, 466775>>
        @@ <<"41.9338", "-76.54679999999999", "40.7505", "-73.9934">> :> <<2504858, 25049>>
        @@ <<"41.9338", "-76.54679999999999", "40.8386", "-73.9426">> :> <<2490453, 24905>>
        @@ <<"41.9338", "-76.54679999999999", "41.19982596636056", "-73.97041982671311">> :> <<2293400, 22934>>
        @@ <<"41.9338", "-76.54679999999999", "41.200197", "-73.9934">> :> <<2275393, 22754>>
        @@ <<"41.9338", "-76.54679999999999", "0.0", "-73.9934">> :> <<46698631, 466986>> )
    @@ (   <<"41.9538", "-76.5268", "40.7505", "-73.9934">> :> <<2502210, 25022>>
        @@ <<"41.9538", "-76.5268", "40.8386", "-73.9426">> :> <<2486637, 24866>>
        @@ <<"41.9538", "-76.5268", "41.19982596636056", "-73.97041982671311">> :> <<2285614, 22856>>
        @@ <<"41.9538", "-76.5268", "41.200197", "-73.9934">> :> <<2267687, 22677>>
        @@ <<"41.9538", "-76.5268", "0.0", "-73.9934">> :> <<46719724, 467197>>
        @@ <<"41.973800000000004", "-76.5068", "40.7505", "-73.9934">> :> <<2499877, 24999>>
        @@ <<"41.973800000000004", "-76.5068", "40.8386", "-73.9426">> :> <<2483136, 24831>>
        @@ <<"41.973800000000004", "-76.5068", "41.19982596636056", "-73.97041982671311">> :> <<2278150, 22781>>
        @@ <<"41.973800000000004", "-76.5068", "41.200197", "-73.9934">> :> <<2260305, 22603>>
        @@ <<"41.973800000000004", "-76.5068", "0.0", "-73.9934">> :> <<46740828, 467408>>
        @@ <<"41.9938", "-76.48679999999999", "40.7505", "-73.9934">> :> <<2497860, 24979>>
        @@ <<"41.9938", "-76.48679999999999", "40.8386", "-73.9426">> :> <<2479950, 24799>>
        @@ <<"41.9938", "-76.48679999999999", "41.19982596636056", "-73.97041982671311">> :> <<2271009, 22710>>
        @@ <<"41.9938", "-76.48679999999999", "41.200197", "-73.9934">> :> <<2253251, 22533>>
        @@ <<"41.9938", "-76.48679999999999", "0.0", "-73.9934">> :> <<46761941, 467619>>
        @@ <<"42.0138", "-76.46679999999999", "40.7505", "-73.9934">> :> <<2496159, 24962>>
        @@ <<"42.0138", "-76.46679999999999", "40.8386", "-73.9426">> :> <<2477081, 24771>>
        @@ <<"42.0138", "-76.46679999999999", "41.19982596636056", "-73.97041982671311">> :> <<2264197, 22642>>
        @@ <<"42.0138", "-76.46679999999999", "41.200197", "-73.9934">> :> <<2246527, 22465>>
        @@ <<"42.0138", "-76.46679999999999", "0.0", "-73.9934">> :> <<46783065, 467831>>
        @@ <<"42.0338", "-76.4468", "40.7505", "-73.9934">> :> <<2494776, 24948>>
        @@ <<"42.0338", "-76.4468", "40.8386", "-73.9426">> :> <<2474529, 24745>>
        @@ <<"42.0338", "-76.4468", "41.19982596636056", "-73.97041982671311">> :> <<2257715, 22577>>
        @@ <<"42.0338", "-76.4468", "41.200197", "-73.9934">> :> <<2240137, 22401>>
        @@ <<"42.0338", "-76.4468", "0.0", "-73.9934">> :> <<46804198, 468042>>
        @@ <<"42.0538", "-76.4268", "40.7505", "-73.9934">> :> <<2493711, 24937>>
        @@ <<"42.0538", "-76.4268", "40.8386", "-73.9426">> :> <<2472296, 24723>>
        @@ <<"42.0538", "-76.4268", "41.19982596636056", "-73.97041982671311">> :> <<2251566, 22516>>
        @@ <<"42.0538", "-76.4268", "41.200197", "-73.9934">> :> <<2234083, 22341>>
        @@ <<"42.0538", "-76.4268", "0.0", "-73.9934">> :> <<46825342, 468253>>
        @@ <<"42.0738", "-76.40679999999999", "40.7505", "-73.9934">> :> <<2492963, 24930>>
        @@ <<"42.0738", "-76.40679999999999", "40.8386", "-73.9426">> :> <<2470382, 24704>>
        @@ <<"42.0738", "-76.40679999999999", "41.19982596636056", "-73.97041982671311">> :> <<2245753, 22458>>
        @@ <<"42.0738", "-76.40679999999999", "41.200197", "-73.9934">> :> <<2228369, 22284>>
        @@ <<"42.0738", "-76.40679999999999", "0.0", "-73.9934">> :> <<46846496, 468465>>
        @@ <<"42.0938", "-76.3868", "40.7505", "-73.9934">> :> <<2492533, 24925>>
        @@ <<"42.0938", "-76.3868", "40.8386", "-73.9426">> :> <<2468788, 24688>>
        @@ <<"42.0938", "-76.3868", "41.19982596636056", "-73.97041982671311">> :> <<2240278, 22403>>
        @@ <<"42.0938", "-76.3868", "41.200197", "-73.9934">> :> <<2222995, 22230>>
        @@ <<"42.0938", "-76.3868", "0.0", "-73.9934">> :> <<46867660, 468677>>
        @@ <<"42.1138", "-76.3668", "40.7505", "-73.9934">> :> <<2492422, 24924>>
        @@ <<"42.1138", "-76.3668", "40.8386", "-73.9426">> :> <<2467515, 24675>>
        @@ <<"42.1138", "-76.3668", "41.19982596636056", "-73.97041982671311">> :> <<2235144, 22351>>
        @@ <<"42.1138", "-76.3668", "41.200197", "-73.9934">> :> <<2217965, 22180>>
        @@ <<"42.1138", "-76.3668", "0.0", "-73.9934">> :> <<46888834, 468888>>
        @@ <<"42.1338", "-76.34679999999999", "40.7505", "-73.9934">> :> <<2492629, 24926>>
        @@ <<"42.1338", "-76.34679999999999", "40.8386", "-73.9426">> :> <<2466563, 24666>>
        @@ <<"42.1338", "-76.34679999999999", "41.19982596636056", "-73.97041982671311">> :> <<2230352, 22304>>
        @@ <<"42.1338", "-76.34679999999999", "41.200197", "-73.9934">> :> <<2213281, 22133>>
        @@ <<"42.1338", "-76.34679999999999", "0.0", "-73.9934">> :> <<46910018, 469100>> )
    @@ (   <<"42.153800000000004", "-76.32679999999999", "40.7505", "-73.9934">> :> <<2493153, 24932>>
        @@ <<"42.153800000000004", "-76.32679999999999", "40.8386", "-73.9426">> :> <<2465931, 24659>>
        @@ <<"42.153800000000004", "-76.32679999999999", "41.19982596636056", "-73.97041982671311">> :> <<2225906, 22259>>
        @@ <<"42.153800000000004", "-76.32679999999999", "41.200197", "-73.9934">> :> <<2208945, 22089>>
        @@ <<"42.153800000000004", "-76.32679999999999", "0.0", "-73.9934">> :> <<46931212, 469312>>
        @@ <<"42.1738", "-76.3068", "40.7505", "-73.9934">> :> <<2493996, 24940>>
        @@ <<"42.1738", "-76.3068", "40.8386", "-73.9426">> :> <<2465621, 24656>>
        @@ <<"42.1738", "-76.3068", "41.19982596636056", "-73.97041982671311">> :> <<2221807, 22218>>
        @@ <<"42.1738", "-76.3068", "41.200197", "-73.9934">> :> <<2204959, 22050>>
        @@ <<"42.1738", "-76.3068", "0.0", "-73.9934">> :> <<46952416, 469524>>
        @@ <<"42.1938", "-76.2868", "40.7505", "-73.9934">> :> <<2495155, 24952>>
        @@ <<"42.1938", "-76.2868", "40.8386", "-73.9426">> :> <<2465632, 24656>>
        @@ <<"42.1938", "-76.2868", "41.19982596636056", "-73.97041982671311">> :> <<2218056, 22181>>
        @@ <<"42.1938", "-76.2868", "41.200197", "-73.9934">> :> <<2201325, 22013>>
        @@ <<"42.1938", "-76.2868", "0.0", "-73.9934">> :> <<46973630, 469736>>
        @@ <<"42.2138", "-76.26679999999999", "40.7505", "-73.9934">> :> <<2496631, 24966>>
        @@ <<"42.2138", "-76.26679999999999", "40.8386", "-73.9426">> :> <<2465964, 24660>>
        @@ <<"42.2138", "-76.26679999999999", "41.19982596636056", "-73.97041982671311">> :> <<2214656, 22147>>
        @@ <<"42.2138", "-76.26679999999999", "41.200197", "-73.9934">> :> <<2198044, 21980>>
        @@ <<"42.2138", "-76.26679999999999", "0.0", "-73.9934">> :> <<46994853, 469949>>
        @@ <<"42.2338", "-76.2468", "40.7505", "-73.9934">> :> <<2498424, 24984>>
        @@ <<"42.2338", "-76.2468", "40.8386", "-73.9426">> :> <<2466618, 24666>>
        @@ <<"42.2338", "-76.2468", "41.19982596636056", "-73.97041982671311">> :> <<2211608, 22116>>
        @@ <<"42.2338", "-76.2468", "41.200197", "-73.9934">> :> <<2195118, 21951>>
        @@ <<"42.2338", "-76.2468", "0.0", "-73.9934">> :> <<47016087, 470161>>
        @@ <<"42.2538", "-76.2268", "40.7505", "-73.9934">> :> <<2500531, 25005>>
        @@ <<"42.2538", "-76.2268", "40.8386", "-73.9426">> :> <<2467591, 24676>>
        @@ <<"42.2538", "-76.2268", "41.19982596636056", "-73.97041982671311">> :> <<2208913, 22089>>
        @@ <<"42.2538", "-76.2268", "41.200197", "-73.9934">> :> <<2192549, 21925>>
        @@ <<"42.2538", "-76.2268", "0.0", "-73.9934">> :> <<47037331, 470373>>
        @@ <<"42.2738", "-76.2068", "40.7505", "-73.9934">> :> <<2502953, 25030>>
        @@ <<"42.2738", "-76.2068", "40.8386", "-73.9426">> :> <<2468885, 24689>>
        @@ <<"42.2738", "-76.2068", "41.19982596636056", "-73.97041982671311">> :> <<2206573, 22066>>
        @@ <<"42.2738", "-76.2068", "41.200197", "-73.9934">> :> <<2190336, 21903>>
        @@ <<"42.2738", "-76.2068", "0.0", "-73.9934">> :> <<47058584, 470586>>
        @@ <<"42.293800000000005", "-76.18679999999999", "40.7505", "-73.9934">> :> <<2505688, 25057>>
        @@ <<"42.293800000000005", "-76.18679999999999", "40.8386", "-73.9426">> :> <<2470499, 24705>>
        @@ <<"42.293800000000005", "-76.18679999999999", "41.19982596636056", "-73.97041982671311">> :> <<2204588, 22046>>
        @@ <<"42.293800000000005", "-76.18679999999999", "41.200197", "-73.9934">> :> <<2188482, 21885>>
        @@ <<"42.293800000000005", "-76.18679999999999", "0.0", "-73.9934">> :> <<47079848, 470798>>
        @@ <<"42.3138", "-76.1668", "40.7505", "-73.9934">> :> <<2508735, 25087>>
        @@ <<"42.3138", "-76.1668", "40.8386", "-73.9426">> :> <<2472431, 24724>>
        @@ <<"42.3138", "-76.1668", "41.19982596636056", "-73.97041982671311">> :> <<2202960, 22030>>
        @@ <<"42.3138", "-76.1668", "41.200197", "-73.9934">> :> <<2186987, 21870>>
        @@ <<"42.3138", "-76.1668", "0.0", "-73.9934">> :> <<47101121, 471011>>
        @@ <<"42.333800000000004", "-76.1468", "40.7505", "-73.9934">> :> <<2512093, 25121>>
        @@ <<"42.333800000000004", "-76.1468", "40.8386", "-73.9426">> :> <<2474681, 24747>>
        @@ <<"42.333800000000004", "-76.1468", "41.19982596636056", "-73.97041982671311">> :> <<2201688, 22017>>
        @@ <<"42.333800000000004", "-76.1468", "41.200197", "-73.9934">> :> <<2185852, 21859>>
        @@ <<"42.333800000000004", "-76.1468", "0.0", "-73.9934">> :> <<47122404, 471224>> )
    @@ (   <<"42.3538", "-76.12679999999999", "40.7505", "-73.9934">> :> <<2515761, 25158>>
        @@ <<"42.3538", "-76.12679999999999", "40.8386", "-73.9426">> :> <<2477248, 24772>>
        @@ <<"42.3538", "-76.12679999999999", "41.19982596636056", "-73.97041982671311">> :> <<2200774, 22008>>
        @@ <<"42.3538", "-76.12679999999999", "41.200197", "-73.9934">> :> <<2185076, 21851>>
        @@ <<"42.3538", "-76.12679999999999", "0.0", "-73.9934">> :> <<47143697, 471437>>
        @@ <<"42.3738", "-76.10679999999999", "40.7505", "-73.9934">> :> <<2519737, 25197>>
        @@ <<"42.3738", "-76.10679999999999", "40.8386", "-73.9426">> :> <<2480131, 24801>>
        @@ <<"42.3738", "-76.10679999999999", "41.19982596636056", "-73.97041982671311">> :> <<2200218, 22002>>
        @@ <<"42.3738", "-76.10679999999999", "41.200197", "-73.9934">> :> <<2184662, 21847>>
        @@ <<"42.3738", "-76.10679999999999", "0.0", "-73.9934">> :> <<47164999, 471650>>
        @@ <<"42.3938", "-76.0868", "40.7505", "-73.9934">> :> <<2524020, 25240>>
        @@ <<"42.3938", "-76.0868", "40.8386", "-73.9426">> :> <<2483329, 24833>>
        @@ <<"42.3938", "-76.0868", "41.19982596636056", "-73.97041982671311">> :> <<2200020, 22000>>
        @@ <<"42.3938", "-76.0868", "41.200197", "-73.9934">> :> <<2184607, 21846>>
        @@ <<"42.3938", "-76.0868", "0.0", "-73.9934">> :> <<47186312, 471863>>
        @@ <<"42.4138", "-76.0668", "40.7505", "-73.9934">> :> <<2528607, 25286>>
        @@ <<"42.4138", "-76.0668", "40.8386", "-73.9426">> :> <<2486839, 24868>>
        @@ <<"42.4138", "-76.0668", "41.19982596636056", "-73.97041982671311">> :> <<2200180, 22002>>
        @@ <<"42.4138", "-76.0668", "41.200197", "-73.9934">> :> <<2184913, 21849>>
        @@ <<"42.4138", "-76.0668", "0.0", "-73.9934">> :> <<47207634, 472076>>
        @@ <<"42.4338", "-76.04679999999999", "40.7505", "-73.9934">> :> <<2533498, 25335>>
        @@ <<"42.4338", "-76.04679999999999", "40.8386", "-73.9426">> :> <<2490662, 24907>>
        @@ <<"42.4338", "-76.04679999999999", "41.19982596636056", "-73.97041982671311">> :> <<2200697, 22007>>
        @@ <<"42.4338", "-76.04679999999999", "41.200197", "-73.9934">> :> <<2185580, 21856>>
        @@ <<"42.4338", "-76.04679999999999", "0.0", "-73.9934">> :> <<47228966, 472290>>
        @@ <<"42.4538", "-76.0268", "40.7505", "-73.9934">> :> <<2538690, 25387>>
        @@ <<"42.4538", "-76.0268", "40.8386", "-73.9426">> :> <<2494796, 24948>>
        @@ <<"42.4538", "-76.0268", "41.19982596636056", "-73.97041982671311">> :> <<2201572, 22016>>
        @@ <<"42.4538", "-76.0268", "41.200197", "-73.9934">> :> <<2186605, 21866>>
        @@ <<"42.4538", "-76.0268", "0.0", "-73.9934">> :> <<47250307, 472503>>
        @@ <<"42.473800000000004", "-76.0068", "40.7505", "-73.9934">> :> <<2544181, 25442>>
        @@ <<"42.473800000000004", "-76.0068", "40.8386", "-73.9426">> :> <<2499238, 24992>>
        @@ <<"42.473800000000004", "-76.0068", "41.19982596636056", "-73.97041982671311">> :> <<2202804, 22028>>
        @@ <<"42.473800000000004", "-76.0068", "41.200197", "-73.9934">> :> <<2187990, 21880>>
        @@ <<"42.473800000000004", "-76.0068", "0.0", "-73.9934">> :> <<47271658, 472717>>
        @@ <<"42.4938", "-75.98679999999999", "40.7505", "-73.9934">> :> <<2549970, 25500>>
        @@ <<"42.4938", "-75.98679999999999", "40.8386", "-73.9426">> :> <<2503986, 25040>>
        @@ <<"42.4938", "-75.98679999999999", "41.19982596636056", "-73.97041982671311">> :> <<2204392, 22044>>
        @@ <<"42.4938", "-75.98679999999999", "41.200197", "-73.9934">> :> <<2189734, 21897>>
        @@ <<"42.4938", "-75.98679999999999", "0.0", "-73.9934">> :> <<47293019, 472930>>
        @@ <<"42.5138", "-75.96679999999999", "40.7505", "-73.9934">> :> <<2556054, 25561>>
        @@ <<"42.5138", "-75.96679999999999", "40.8386", "-73.9426">> :> <<2509041, 25090>>
        @@ <<"42.5138", "-75.96679999999999", "41.19982596636056", "-73.97041982671311">> :> <<2206336, 22063>>
        @@ <<"42.5138", "-75.96679999999999", "41.200197", "-73.9934">> :> <<2191834, 21918>>
        @@ <<"42.5138", "-75.96679999999999", "0.0", "-73.9934">> :> <<47314390, 473144>>
        @@ <<"42.5338", "-75.9468", "40.7505", "-73.9934">> :> <<2562431, 25624>>
        @@ <<"42.5338", "-75.9468", "40.8386", "-73.9426">> :> <<2514398, 25144>>
        @@ <<"42.5338", "-75.9468", "41.19982596636056", "-73.97041982671311">> :> <<2208633, 22086>>
        @@ <<"42.5338", "-75.9468", "41.200197", "-73.9934">> :> <<2194291, 21943>>
        @@ <<"42.5338", "-75.9468", "0.0", "-73.9934">> :> <<47335770, 473358>> )
    @@ (   <<"42.5538", "-75.9268", "40.7505", "-73.9934">> :> <<2569099, 25691>>
        @@ <<"42.5538", "-75.9268", "40.8386", "-73.9426">> :> <<2520056, 25201>>
        @@ <<"42.5538", "-75.9268", "41.19982596636056", "-73.97041982671311">> :> <<2211284, 22113>>
        @@ <<"42.5538", "-75.9268", "41.200197", "-73.9934">> :> <<2197103, 21971>>
        @@ <<"42.5538", "-75.9268", "0.0", "-73.9934">> :> <<47357160, 473572>>
        @@ <<"42.5738", "-75.90679999999999", "40.7505", "-73.9934">> :> <<2576055, 25761>>
        @@ <<"42.5738", "-75.90679999999999", "40.8386", "-73.9426">> :> <<2526014, 25260>>
        @@ <<"42.5738", "-75.90679999999999", "41.19982596636056", "-73.97041982671311">> :> <<2214286, 22143>>
        @@ <<"42.5738", "-75.90679999999999", "41.200197", "-73.9934">> :> <<2200268, 22003>>
        @@ <<"42.5738", "-75.90679999999999", "0.0", "-73.9934">> :> <<47378559, 473786>>
        @@ <<"42.5938", "-75.8868", "40.7505", "-73.9934">> :> <<2583298, 25833>>
        @@ <<"42.5938", "-75.8868", "40.8386", "-73.9426">> :> <<2532268, 25323>>
        @@ <<"42.5938", "-75.8868", "41.19982596636056", "-73.97041982671311">> :> <<2217638, 22176>>
        @@ <<"42.5938", "-75.8868", "41.200197", "-73.9934">> :> <<2203785, 22038>>
        @@ <<"42.5938", "-75.8868", "0.0", "-73.9934">> :> <<47399968, 474000>>
        @@ <<"42.6138", "-75.8668", "40.7505", "-73.9934">> :> <<2590823, 25908>>
        @@ <<"42.6138", "-75.8668", "40.8386", "-73.9426">> :> <<2538817, 25388>>
        @@ <<"42.6138", "-75.8668", "41.19982596636056", "-73.97041982671311">> :> <<2221339, 22213>>
        @@ <<"42.6138", "-75.8668", "41.200197", "-73.9934">> :> <<2207651, 22077>>
        @@ <<"42.6138", "-75.8668", "0.0", "-73.9934">> :> <<47421387, 474214>>
        @@ <<"42.6338", "-75.84679999999999", "40.7505", "-73.9934">> :> <<2598630, 25986>>
        @@ <<"42.6338", "-75.84679999999999", "40.8386", "-73.9426">> :> <<2545659, 25457>>
        @@ <<"42.6338", "-75.84679999999999", "41.19982596636056", "-73.97041982671311">> :> <<2225386, 22254>>
        @@ <<"42.6338", "-75.84679999999999", "41.200197", "-73.9934">> :> <<2211866, 22119>>
        @@ <<"42.6338", "-75.84679999999999", "0.0", "-73.9934">> :> <<47442815, 474428>>
        @@ <<"42.653800000000004", "-75.82679999999999", "40.7505", "-73.9934">> :> <<2606715, 26067>>
        @@ <<"42.653800000000004", "-75.82679999999999", "40.8386", "-73.9426">> :> <<2552790, 25528>>
        @@ <<"42.653800000000004", "-75.82679999999999", "41.19982596636056", "-73.97041982671311">> :> <<2229778, 22298>>
        @@ <<"42.653800000000004", "-75.82679999999999", "41.200197", "-73.9934">> :> <<2216427, 22164>>
        @@ <<"42.653800000000004", "-75.82679999999999", "0.0", "-73.9934">> :> <<47464253, 474643>>
        @@ <<"42.6738", "-75.8068", "40.7505", "-73.9934">> :> <<2615075, 26151>>
        @@ <<"42.6738", "-75.8068", "40.8386", "-73.9426">> :> <<2560208, 25602>>
        @@ <<"42.6738", "-75.8068", "41.19982596636056", "-73.97041982671311">> :> <<2234512, 22345>>
        @@ <<"42.6738", "-75.8068", "41.200197", "-73.9934">> :> <<2221331, 22213>>
        @@ <<"42.6738", "-75.8068", "0.0", "-73.9934">> :> <<47485700, 474857>>
        @@ <<"42.6938", "-75.7868", "40.7505", "-73.9934">> :> <<2623708, 26237>>
        @@ <<"42.6938", "-75.7868", "40.8386", "-73.9426">> :> <<2567910, 25679>>
        @@ <<"42.6938", "-75.7868", "41.19982596636056", "-73.97041982671311">> :> <<2239587, 22396>>
        @@ <<"42.6938", "-75.7868", "41.200197", "-73.9934">> :> <<2226576, 22266>>
        @@ <<"42.6938", "-75.7868", "0.0", "-73.9934">> :> <<47507156, 475072>>
        @@ <<"42.7138", "-75.76679999999999", "40.7505", "-73.9934">> :> <<2632612, 26326>>
        @@ <<"42.7138", "-75.76679999999999", "40.8386", "-73.9426">> :> <<2575895, 25759>>
        @@ <<"42.7138", "-75.76679999999999", "41.19982596636056", "-73.97041982671311">> :> <<2244999, 22450>>
        @@ <<"42.7138", "-75.76679999999999", "41.200197", "-73.9934">> :> <<2232161, 22322>>
        @@ <<"42.7138", "-75.76679999999999", "0.0", "-73.9934">> :> <<47528622, 475286>>
        @@ <<"42.7338", "-75.7468", "40.7505", "-73.9934">> :> <<2641783, 26418>>
        @@ <<"42.7338", "-75.7468", "40.8386", "-73.9426">> :> <<2584159, 25842>>
        @@ <<"42.7338", "-75.7468", "41.19982596636056", "-73.97041982671311">> :> <<2250746, 22507>>
        @@ <<"42.7338", "-75.7468", "41.200197", "-73.9934">> :> <<2238081, 22381>>
        @@ <<"42.7338", "-75.7468", "0.0", "-73.9934">> :> <<47550098, 475501>> )
    @@ (   <<"42.7538", "-75.7268", "40.7505", "-73.9934">> :> <<2651218, 26512>>
        @@ <<"42.7538", "-75.7268", "40.8386", "-73.9426">> :> <<2592699, 25927>>
        @@ <<"42.7538", "-75.7268", "41.19982596636056", "-73.97041982671311">> :> <<2256826, 22568>>
        @@ <<"42.7538", "-75.7268", "41.200197", "-73.9934">> :> <<2244335, 22443>>
        @@ <<"42.7538", "-75.7268", "0.0", "-73.9934">> :> <<47571583, 475716>>
        @@ <<"42.7738", "-75.7068", "40.7505", "-73.9934">> :> <<2660914, 26609>>
        @@ <<"42.7738", "-75.7068", "40.8386", "-73.9426">> :> <<2601514, 26015>>
        @@ <<"42.7738", "-75.7068", "41.19982596636056", "-73.97041982671311">> :> <<2263235, 22632>>
        @@ <<"42.7738", "-75.7068", "41.200197", "-73.9934">> :> <<2250919, 22509>>
        @@ <<"42.7738", "-75.7068", "0.0", "-73.9934">> :> <<47593077, 475931>>
        @@ <<"42.793800000000005", "-75.68679999999999", "40.7505", "-73.9934">> :> <<2670870, 26709>>
        @@ <<"42.793800000000005", "-75.68679999999999", "40.8386", "-73.9426">> :> <<2610598, 26106>>
        @@ <<"42.793800000000005", "-75.68679999999999", "41.19982596636056", "-73.97041982671311">> :> <<2269971, 22700>>
        @@ <<"42.793800000000005", "-75.68679999999999", "41.200197", "-73.9934">> :> <<2257831, 22578>>
        @@ <<"42.793800000000005", "-75.68679999999999", "0.0", "-73.9934">> :> <<47614581, 476146>>
        @@ <<"42.8138", "-75.6668", "40.7505", "-73.9934">> :> <<2681080, 26811>>
        @@ <<"42.8138", "-75.6668", "40.8386", "-73.9426">> :> <<2619951, 26200>>
        @@ <<"42.8138", "-75.6668", "41.19982596636056", "-73.97041982671311">> :> <<2277031, 22770>>
        @@ <<"42.8138", "-75.6668", "41.200197", "-73.9934">> :> <<2265067, 22651>>
        @@ <<"42.8138", "-75.6668", "0.0", "-73.9934">> :> <<47636094, 476361>>
        @@ <<"42.833800000000004", "-75.6468", "40.7505", "-73.9934">> :> <<2691544, 26915>>
        @@ <<"42.833800000000004", "-75.6468", "40.8386", "-73.9426">> :> <<2629569, 26296>>
        @@ <<"42.833800000000004", "-75.6468", "41.19982596636056", "-73.97041982671311">> :> <<2284411, 22844>>
        @@ <<"42.833800000000004", "-75.6468", "41.200197", "-73.9934">> :> <<2272624, 22726>>
        @@ <<"42.833800000000004", "-75.6468", "0.0", "-73.9934">> :> <<47657617, 476576>>
        @@ <<"42.8538", "-75.62679999999999", "40.7505", "-73.9934">> :> <<2702256, 27023>>
        @@ <<"42.8538", "-75.62679999999999", "40.8386", "-73.9426">> :> <<2639449, 26394>>
        @@ <<"42.8538", "-75.62679999999999", "41.19982596636056", "-73.97041982671311">> :> <<2292109, 22921>>
        @@ <<"42.8538", "-75.62679999999999", "41.200197", "-73.9934">> :> <<2280498, 22805>>
        @@ <<"42.8538", "-75.62679999999999", "0.0", "-73.9934">> :> <<47679149, 476791>>
        @@ <<"42.8738", "-75.60679999999999", "40.7505", "-73.9934">> :> <<2713216, 27132>>
        @@ <<"42.8738", "-75.60679999999999", "40.8386", "-73.9426">> :> <<2649587, 26496>>
        @@ <<"42.8738", "-75.60679999999999", "41.19982596636056", "-73.97041982671311">> :> <<2300121, 23001>>
        @@ <<"42.8738", "-75.60679999999999", "41.200197", "-73.9934">> :> <<2288688, 22887>>
        @@ <<"42.8738", "-75.60679999999999", "0.0", "-73.9934">> :> <<47700690, 477007>>
        @@ <<"42.8938", "-75.5868", "40.7505", "-73.9934">> :> <<2724418, 27244>>
        @@ <<"42.8938", "-75.5868", "40.8386", "-73.9426">> :> <<2659982, 26600>>
        @@ <<"42.8938", "-75.5868", "41.19982596636056", "-73.97041982671311">> :> <<2308444, 23084>>
        @@ <<"42.8938", "-75.5868", "41.200197", "-73.9934">> :> <<2297188, 22972>>
        @@ <<"42.8938", "-75.5868", "0.0", "-73.9934">> :> <<47722240, 477222>>
        @@ <<"42.9138", "-75.5668", "40.7505", "-73.9934">> :> <<2735862, 27359>>
        @@ <<"42.9138", "-75.5668", "40.8386", "-73.9426">> :> <<2670629, 26706>>
        @@ <<"42.9138", "-75.5668", "41.19982596636056", "-73.97041982671311">> :> <<2317074, 23171>>
        @@ <<"42.9138", "-75.5668", "41.200197", "-73.9934">> :> <<2305996, 23060>>
        @@ <<"42.9138", "-75.5668", "0.0", "-73.9934">> :> <<47743800, 477438>>
        @@ <<"42.9338", "-75.54679999999999", "40.7505", "-73.9934">> :> <<2747542, 27475>>
        @@ <<"42.9338", "-75.54679999999999", "40.8386", "-73.9426">> :> <<2681526, 26815>>
        @@ <<"42.9338", "-75.54679999999999", "41.19982596636056", "-73.97041982671311">> :> <<2326008, 23260>>
        @@ <<"42.9338", "-75.54679999999999", "41.200197", "-73.9934">> :> <<2315107, 23151>>
        @@ <<"42.9338", "-75.54679999999999", "0.0", "-73.9934">> :> <<47765369, 477654>> )
    @@ (   <<"42.9538", "-75.5268", "40.7505", "-73.9934">> :> <<2759456, 27595>>
        @@ <<"42.9538", "-75.5268", "40.8386", "-73.9426">> :> <<2692669, 26927>>
        @@ <<"42.9538", "-75.5268", "41.19982596636056", "-73.97041982671311">> :> <<2335242, 23352>>
        @@ <<"42.9538", "-75.5268", "41.200197", "-73.9934">> :> <<2324518, 23245>>
        @@ <<"42.9538", "-75.5268", "0.0", "-73.9934">> :> <<47786947, 477869>>
        @@ <<"42.973800000000004", "-75.5068", "40.7505", "-73.9934">> :> <<2771602, 27716>>
        @@ <<"42.973800000000004", "-75.5068", "40.8386", "-73.9426">> :> <<2704056, 27041>>
        @@ <<"42.973800000000004", "-75.5068", "41.19982596636056", "-73.97041982671311">> :> <<2344773, 23448>>
        @@ <<"42.973800000000004", "-75.5068", "41.200197", "-73.9934">> :> <<2334226, 23342>>
        @@ <<"42.973800000000004", "-75.5068", "0.0", "-73.9934">> :> <<47808535, 478085>>
        @@ <<"42.9938", "-75.48679999999999", "40.7505", "-73.9934">> :> <<2783975, 27840>>
        @@ <<"42.9938", "-75.48679999999999", "40.8386", "-73.9426">> :> <<2715683, 27157>>
        @@ <<"42.9938", "-75.48679999999999", "41.19982596636056", "-73.97041982671311">> :> <<2354596, 23546>>
        @@ <<"42.9938", "-75.48679999999999", "41.200197", "-73.9934">> :> <<2344227, 23442>>
        @@ <<"42.9938", "-75.48679999999999", "0.0", "-73.9934">> :> <<47830132, 478301>>
        @@ <<"43.0138", "-75.46679999999999", "40.7505", "-73.9934">> :> <<2796573, 27966>>
        @@ <<"43.0138", "-75.46679999999999", "40.8386", "-73.9426">> :> <<2727547, 27275>>
        @@ <<"43.0138", "-75.46679999999999", "41.19982596636056", "-73.97041982671311">> :> <<2364708, 23647>>
        @@ <<"43.0138", "-75.46679999999999", "41.200197", "-73.9934">> :> <<2354516, 23545>>
        @@ <<"43.0138", "-75.46679999999999", "0.0", "-73.9934">> :> <<47851738, 478517>>
        @@ <<"43.0338", "-75.4468", "40.7505", "-73.9934">> :> <<2809393, 28094>>
        @@ <<"43.0338", "-75.4468", "40.8386", "-73.9426">> :> <<2739645, 27396>>
        @@ <<"43.0338", "-75.4468", "41.19982596636056", "-73.97041982671311">> :> <<2375106, 23751>>
        @@ <<"43.0338", "-75.4468", "41.200197", "-73.9934">> :> <<2365090, 23651>>
        @@ <<"43.0338", "-75.4468", "0.0", "-73.9934">> :> <<47873353, 478734>>
        @@ <<"43.0538", "-75.4268", "40.7505", "-73.9934">> :> <<2822432, 28224>>
        @@ <<"43.0538", "-75.4268", "40.8386", "-73.9426">> :> <<2751973, 27520>>
        @@ <<"43.0538", "-75.4268", "41.19982596636056", "-73.97041982671311">> :> <<2385785, 23858>>
        @@ <<"43.0538", "-75.4268", "41.200197", "-73.9934">> :> <<2375945, 23759>>
        @@ <<"43.0538", "-75.4268", "0.0", "-73.9934">> :> <<47894977, 478950>>
        @@ <<"43.0738", "-75.40679999999999", "40.7505", "-73.9934">> :> <<2835686, 28357>>
        @@ <<"43.0738", "-75.40679999999999", "40.8386", "-73.9426">> :> <<2764530, 27645>>
        @@ <<"43.0738", "-75.40679999999999", "41.19982596636056", "-73.97041982671311">> :> <<2396742, 23967>>
        @@ <<"43.0738", "-75.40679999999999", "41.200197", "-73.9934">> :> <<2387076, 23871>>
        @@ <<"43.0738", "-75.40679999999999", "0.0", "-73.9934">> :> <<47916610, 479166>>
        @@ <<"43.0938", "-75.3868", "40.7505", "-73.9934">> :> <<2849152, 28492>>
        @@ <<"43.0938", "-75.3868", "40.8386", "-73.9426">> :> <<2777310, 27773>>
        @@ <<"43.0938", "-75.3868", "41.19982596636056", "-73.97041982671311">> :> <<2407972, 24080>>
        @@ <<"43.0938", "-75.3868", "41.200197", "-73.9934">> :> <<2398481, 23985>>
        @@ <<"43.0938", "-75.3868", "0.0", "-73.9934">> :> <<47938253, 479383>>
        @@ <<"43.1138", "-75.3668", "40.7505", "-73.9934">> :> <<2862827, 28628>>
        @@ <<"43.1138", "-75.3668", "40.8386", "-73.9426">> :> <<2790312, 27903>>
        @@ <<"43.1138", "-75.3668", "41.19982596636056", "-73.97041982671311">> :> <<2419472, 24195>>
        @@ <<"43.1138", "-75.3668", "41.200197", "-73.9934">> :> <<2410155, 24102>>
        @@ <<"43.1138", "-75.3668", "0.0", "-73.9934">> :> <<47959904, 479599>>
        @@ <<"43.1338", "-75.34679999999999", "40.7505", "-73.9934">> :> <<2876709, 28767>>
        @@ <<"43.1338", "-75.34679999999999", "40.8386", "-73.9426">> :> <<2803532, 28035>>
        @@ <<"43.1338", "-75.34679999999999", "41.19982596636056", "-73.97041982671311">> :> <<2431238, 24312>>
        @@ <<"43.1338", "-75.34679999999999", "41.200197", "-73.9934">> :> <<2422094, 24221>>
        @@ <<"43.1338", "-75.34679999999999", "0.0", "-73.9934">> :> <<47981565, 479816>> )
    @@ (   <<"43.153800000000004", "-75.32679999999999", "40.7505", "-73.9934">> :> <<2890794, 28908>>
        @@ <<"43.153800000000004", "-75.32679999999999", "40.8386", "-73.9426">> :> <<2816966, 28170>>
        @@ <<"43.153800000000004", "-75.32679999999999", "41.19982596636056", "-73.97041982671311">> :> <<2443265, 24433>>
        @@ <<"43.153800000000004", "-75.32679999999999", "41.200197", "-73.9934">> :> <<2434294, 24343>>
        @@ <<"43.153800000000004", "-75.32679999999999", "0.0", "-73.9934">> :> <<48003235, 480032>>
        @@ <<"43.1738", "-75.3068", "40.7505", "-73.9934">> :> <<2905079, 29051>>
        @@ <<"43.1738", "-75.3068", "40.8386", "-73.9426">> :> <<2830613, 28306>>
        @@ <<"43.1738", "-75.3068", "41.19982596636056", "-73.97041982671311">> :> <<2455551, 24556>>
        @@ <<"43.1738", "-75.3068", "41.200197", "-73.9934">> :> <<2446752, 24468>>
        @@ <<"43.1738", "-75.3068", "0.0", "-73.9934">> :> <<48024914, 480249>>
        @@ <<"43.1938", "-75.2868", "40.7505", "-73.9934">> :> <<2919561, 29196>>
        @@ <<"43.1938", "-75.2868", "40.8386", "-73.9426">> :> <<2844468, 28445>>
        @@ <<"43.1938", "-75.2868", "41.19982596636056", "-73.97041982671311">> :> <<2468091, 24681>>
        @@ <<"43.1938", "-75.2868", "41.200197", "-73.9934">> :> <<2459462, 24595>>
        @@ <<"43.1938", "-75.2868", "0.0", "-73.9934">> :> <<48046602, 480466>>
        @@ <<"43.2138", "-75.26679999999999", "40.7505", "-73.9934">> :> <<2934237, 29342>>
        @@ <<"43.2138", "-75.26679999999999", "40.8386", "-73.9426">> :> <<2858528, 28585>>
        @@ <<"43.2138", "-75.26679999999999", "41.19982596636056", "-73.97041982671311">> :> <<2480880, 24809>>
        @@ <<"43.2138", "-75.26679999999999", "41.200197", "-73.9934">> :> <<2472421, 24724>>
        @@ <<"43.2138", "-75.26679999999999", "0.0", "-73.9934">> :> <<48068298, 480683>>
        @@ <<"43.2338", "-75.2468", "40.7505", "-73.9934">> :> <<2949104, 29491>>
        @@ <<"43.2338", "-75.2468", "40.8386", "-73.9426">> :> <<2872790, 28728>>
        @@ <<"43.2338", "-75.2468", "41.19982596636056", "-73.97041982671311">> :> <<2493916, 24939>>
        @@ <<"43.2338", "-75.2468", "41.200197", "-73.9934">> :> <<2485625, 24856>>
        @@ <<"43.2338", "-75.2468", "0.0", "-73.9934">> :> <<48090004, 480900>>
        @@ <<"43.2538", "-75.2268", "40.7505", "-73.9934">> :> <<2964159, 29642>>
        @@ <<"43.2538", "-75.2268", "40.8386", "-73.9426">> :> <<2887252, 28873>>
        @@ <<"43.2538", "-75.2268", "41.19982596636056", "-73.97041982671311">> :> <<2507193, 25072>>
        @@ <<"43.2538", "-75.2268", "41.200197", "-73.9934">> :> <<2499070, 24991>>
        @@ <<"43.2538", "-75.2268", "0.0", "-73.9934">> :> <<48111719, 481117>>
        @@ <<"43.2738", "-75.2068", "40.7505", "-73.9934">> :> <<2979400, 29794>>
        @@ <<"43.2738", "-75.2068", "40.8386", "-73.9426">> :> <<2901910, 29019>>
        @@ <<"43.2738", "-75.2068", "41.19982596636056", "-73.97041982671311">> :> <<2520709, 25207>>
        @@ <<"43.2738", "-75.2068", "41.200197", "-73.9934">> :> <<2512753, 25128>>
        @@ <<"43.2738", "-75.2068", "0.0", "-73.9934">> :> <<48133443, 481334>>
        @@ <<"43.293800000000005", "-75.18679999999999", "40.7505", "-73.9934">> :> <<2994822, 29948>>
        @@ <<"43.293800000000005", "-75.18679999999999", "40.8386", "-73.9426">> :> <<2916762, 29168>>
        @@ <<"43.293800000000005", "-75.18679999999999", "41.19982596636056", "-73.97041982671311">> :> <<2534459, 25345>>
        @@ <<"43.293800000000005", "-75.18679999999999", "41.200197", "-73.9934">> :> <<2526668, 25267>>
        @@ <<"43.293800000000005", "-75.18679999999999", "0.0", "-73.9934">> :> <<48155176, 481552>>
        @@ <<"43.3138", "-75.1668", "40.7505", "-73.9934">> :> <<3010424, 30104>>
        @@ <<"43.3138", "-75.1668", "40.8386", "-73.9426">> :> <<2931803, 29318>>
        @@ <<"43.3138", "-75.1668", "41.19982596636056", "-73.97041982671311">> :> <<2548439, 25484>>
        @@ <<"43.3138", "-75.1668", "41.200197", "-73.9934">> :> <<2540813, 25408>>
        @@ <<"43.3138", "-75.1668", "0.0", "-73.9934">> :> <<48176918, 481769>>
        @@ <<"43.333800000000004", "-75.1468", "40.7505", "-73.9934">> :> <<3026203, 30262>>
        @@ <<"43.333800000000004", "-75.1468", "40.8386", "-73.9426">> :> <<2947031, 29470>>
        @@ <<"43.333800000000004", "-75.1468", "41.19982596636056", "-73.97041982671311">> :> <<2562646, 25626>>
        @@ <<"43.333800000000004", "-75.1468", "41.200197", "-73.9934">> :> <<2555182, 25552>>
        @@ <<"43.333800000000004", "-75.1468", "0.0", "-73.9934">> :> <<48198668, 481987>> )
    @@ (   <<"43.3538", "-75.12679999999999", "40.7505", "-73.9934">> :> <<3042155, 30422>>
        @@ <<"43.3538", "-75.12679999999999", "40.8386", "-73.9426">> :> <<2962444, 29624>>
        @@ <<"43.3538", "-75.12679999999999", "41.19982596636056", "-73.97041982671311">> :> <<2577076, 25771>>
        @@ <<"43.3538", "-75.12679999999999", "41.200197", "-73.9934">> :> <<2569774, 25698>>
        @@ <<"43.3538", "-75.12679999999999", "0.0", "-73.9934">> :> <<48220428, 482204>>
        @@ <<"43.3738", "-75.10679999999999", "40.7505", "-73.9934">> :> <<3058278, 30583>>
        @@ <<"43.3738", "-75.10679999999999", "40.8386", "-73.9426">> :> <<2978038, 29780>>
        @@ <<"43.3738", "-75.10679999999999", "41.19982596636056", "-73.97041982671311">> :> <<2591724, 25917>>
        @@ <<"43.3738", "-75.10679999999999", "41.200197", "-73.9934">> :> <<2584583, 25846>>
        @@ <<"43.3738", "-75.10679999999999", "0.0", "-73.9934">> :> <<48242196, 482422>>
        @@ <<"43.3938", "-75.0868", "40.7505", "-73.9934">> :> <<3074570, 30746>>
        @@ <<"43.3938", "-75.0868", "40.8386", "-73.9426">> :> <<2993810, 29938>>
        @@ <<"43.3938", "-75.0868", "41.19982596636056", "-73.97041982671311">> :> <<2606588, 26066>>
        @@ <<"43.3938", "-75.0868", "41.200197", "-73.9934">> :> <<2599605, 25996>>
        @@ <<"43.3938", "-75.0868", "0.0", "-73.9934">> :> <<48263973, 482640>>
        @@ <<"43.4138", "-75.0668", "40.7505", "-73.9934">> :> <<3091026, 30910>>
        @@ <<"43.4138", "-75.0668", "40.8386", "-73.9426">> :> <<3009757, 30098>>
        @@ <<"43.4138", "-75.0668", "41.19982596636056", "-73.97041982671311">> :> <<2621662, 26217>>
        @@ <<"43.4138", "-75.0668", "41.200197", "-73.9934">> :> <<2614837, 26148>>
        @@ <<"43.4138", "-75.0668", "0.0", "-73.9934">> :> <<48285759, 482858>>
        @@ <<"43.4338", "-75.04679999999999", "40.7505", "-73.9934">> :> <<3107645, 31076>>
        @@ <<"43.4338", "-75.04679999999999", "40.8386", "-73.9426">> :> <<3025877, 30259>>
        @@ <<"43.4338", "-75.04679999999999", "41.19982596636056", "-73.97041982671311">> :> <<2636945, 26369>>
        @@ <<"43.4338", "-75.04679999999999", "41.200197", "-73.9934">> :> <<2630276, 26303>>
        @@ <<"43.4338", "-75.04679999999999", "0.0", "-73.9934">> :> <<48307554, 483076>>
        @@ <<"43.4538", "-75.0268", "40.7505", "-73.9934">> :> <<3124425, 31244>>
        @@ <<"43.4538", "-75.0268", "40.8386", "-73.9426">> :> <<3042167, 30422>>
        @@ <<"43.4538", "-75.0268", "41.19982596636056", "-73.97041982671311">> :> <<2652431, 26524>>
        @@ <<"43.4538", "-75.0268", "41.200197", "-73.9934">> :> <<2645917, 26459>>
        @@ <<"43.4538", "-75.0268", "0.0", "-73.9934">> :> <<48329358, 483294>>
        @@ <<"43.473800000000004", "-75.0068", "40.7505", "-73.9934">> :> <<3141361, 31414>>
        @@ <<"43.473800000000004", "-75.0068", "40.8386", "-73.9426">> :> <<3058623, 30586>>
        @@ <<"43.473800000000004", "-75.0068", "41.19982596636056", "-73.97041982671311">> :> <<2668117, 26681>>
        @@ <<"43.473800000000004", "-75.0068", "41.200197", "-73.9934">> :> <<2661757, 26618>>
        @@ <<"43.473800000000004", "-75.0068", "0.0", "-73.9934">> :> <<48351170, 483512>>
        @@ <<"43.4938", "-74.98679999999999", "40.7505", "-73.9934">> :> <<3158452, 31585>>
        @@ <<"43.4938", "-74.98679999999999", "40.8386", "-73.9426">> :> <<3075244, 30752>>
        @@ <<"43.4938", "-74.98679999999999", "41.19982596636056", "-73.97041982671311">> :> <<2684000, 26840>>
        @@ <<"43.4938", "-74.98679999999999", "41.200197", "-73.9934">> :> <<2677792, 26778>>
        @@ <<"43.4938", "-74.98679999999999", "0.0", "-73.9934">> :> <<48372992, 483730>>
        @@ <<"43.5138", "-74.96679999999999", "40.7505", "-73.9934">> :> <<3175696, 31757>>
        @@ <<"43.5138", "-74.96679999999999", "40.8386", "-73.9426">> :> <<3092026, 30920>>
        @@ <<"43.5138", "-74.96679999999999", "41.19982596636056", "-73.97041982671311">> :> <<2700076, 27001>>
        @@ <<"43.5138", "-74.96679999999999", "41.200197", "-73.9934">> :> <<2694019, 26940>>
        @@ <<"43.5138", "-74.96679999999999", "0.0", "-73.9934">> :> <<48394821, 483948>>
        @@ <<"43.5338", "-74.9468", "40.7505", "-73.9934">> :> <<3193089, 31931>>
        @@ <<"43.5338", "-74.9468", "40.8386", "-73.9426">> :> <<3108967, 31090>>
        @@ <<"43.5338", "-74.9468", "41.19982596636056", "-73.97041982671311">> :> <<2716342, 27163>>
        @@ <<"43.5338", "-74.9468", "41.200197", "-73.9934">> :> <<2710434, 27104>>
        @@ <<"43.5338", "-74.9468", "0.0", "-73.9934">> :> <<48416660, 484167>> )
    @@ (   <<"43.5538", "-74.9268", "40.7505", "-73.9934">> :> <<3210629, 32106>>
        @@ <<"43.5538", "-74.9268", "40.8386", "-73.9426">> :> <<3126064, 31261>>
        @@ <<"43.5538", "-74.9268", "41.19982596636056", "-73.97041982671311">> :> <<2732794, 27328>>
        @@ <<"43.5538", "-74.9268", "41.200197", "-73.9934">> :> <<2727033, 27270>>
        @@ <<"43.5538", "-74.9268", "0.0", "-73.9934">> :> <<48438508, 484385>>
        @@ <<"43.5738", "-74.90679999999999", "40.7505", "-73.9934">> :> <<3228314, 32283>>
        @@ <<"43.5738", "-74.90679999999999", "40.8386", "-73.9426">> :> <<3143314, 31433>>
        @@ <<"43.5738", "-74.90679999999999", "41.19982596636056", "-73.97041982671311">> :> <<2749428, 27494>>
        @@ <<"43.5738", "-74.90679999999999", "41.200197", "-73.9934">> :> <<2743814, 27438>>
        @@ <<"43.5738", "-74.90679999999999", "0.0", "-73.9934">> :> <<48460364, 484604>>
        @@ <<"43.5938", "-74.8868", "40.7505", "-73.9934">> :> <<3246140, 32461>>
        @@ <<"43.5938", "-74.8868", "40.8386", "-73.9426">> :> <<3160715, 31607>>
        @@ <<"43.5938", "-74.8868", "41.19982596636056", "-73.97041982671311">> :> <<2766241, 27662>>
        @@ <<"43.5938", "-74.8868", "41.200197", "-73.9934">> :> <<2760772, 27608>>
        @@ <<"43.5938", "-74.8868", "0.0", "-73.9934">> :> <<48482229, 484822>>
        @@ <<"43.6138", "-74.8668", "40.7505", "-73.9934">> :> <<3264107, 32641>>
        @@ <<"43.6138", "-74.8668", "40.8386", "-73.9426">> :> <<3178264, 31783>>
        @@ <<"43.6138", "-74.8668", "41.19982596636056", "-73.97041982671311">> :> <<2783231, 27832>>
        @@ <<"43.6138", "-74.8668", "41.200197", "-73.9934">> :> <<2777905, 27779>>
        @@ <<"43.6138", "-74.8668", "0.0", "-73.9934">> :> <<48504102, 485041>>
        @@ <<"43.6338", "-74.84679999999999", "40.7505", "-73.9934">> :> <<3282211, 32822>>
        @@ <<"43.6338", "-74.84679999999999", "40.8386", "-73.9426">> :> <<3195959, 31960>>
        @@ <<"43.6338", "-74.84679999999999", "41.19982596636056", "-73.97041982671311">> :> <<2800393, 28004>>
        @@ <<"43.6338", "-74.84679999999999", "41.200197", "-73.9934">> :> <<2795209, 27952>>
        @@ <<"43.6338", "-74.84679999999999", "0.0", "-73.9934">> :> <<48525984, 485260>>
        @@ <<"43.653800000000004", "-74.82679999999999", "40.7505", "-73.9934">> :> <<3300450, 33004>>
        @@ <<"43.653800000000004", "-74.82679999999999", "40.8386", "-73.9426">> :> <<3213798, 32138>>
        @@ <<"43.653800000000004", "-74.82679999999999", "41.19982596636056", "-73.97041982671311">> :> <<2817724, 28177>>
        @@ <<"43.653800000000004", "-74.82679999999999", "41.200197", "-73.9934">> :> <<2812680, 28127>>
        @@ <<"43.653800000000004", "-74.82679999999999", "0.0", "-73.9934">> :> <<48547875, 485479>>
        @@ <<"43.6738", "-74.8068", "40.7505", "-73.9934">> :> <<3318821, 33188>>
        @@ <<"43.6738", "-74.8068", "40.8386", "-73.9426">> :> <<3231777, 32318>>
        @@ <<"43.6738", "-74.8068", "41.19982596636056", "-73.97041982671311">> :> <<2835222, 28352>>
        @@ <<"43.6738", "-74.8068", "41.200197", "-73.9934">> :> <<2830316, 28303>>
        @@ <<"43.6738", "-74.8068", "0.0", "-73.9934">> :> <<48569774, 485698>>
        @@ <<"43.6938", "-74.7868", "40.7505", "-73.9934">> :> <<3337324, 33373>>
        @@ <<"43.6938", "-74.7868", "40.8386", "-73.9426">> :> <<3249894, 32499>>
        @@ <<"43.6938", "-74.7868", "41.19982596636056", "-73.97041982671311">> :> <<2852882, 28529>>
        @@ <<"43.6938", "-74.7868", "41.200197", "-73.9934">> :> <<2848114, 28481>>
        @@ <<"43.6938", "-74.7868", "0.0", "-73.9934">> :> <<48591682, 485917>>
        @@ <<"43.7138", "-74.76679999999999", "40.7505", "-73.9934">> :> <<3355954, 33560>>
        @@ <<"43.7138", "-74.76679999999999", "40.8386", "-73.9426">> :> <<3268148, 32681>>
        @@ <<"43.7138", "-74.76679999999999", "41.19982596636056", "-73.97041982671311">> :> <<2870702, 28707>>
        @@ <<"43.7138", "-74.76679999999999", "41.200197", "-73.9934">> :> <<2866070, 28661>>
        @@ <<"43.7138", "-74.76679999999999", "0.0", "-73.9934">> :> <<48613599, 486136>>
        @@ <<"43.7338", "-74.7468", "40.7505", "-73.9934">> :> <<3374710, 33747>>
        @@ <<"43.7338", "-74.7468", "40.8386", "-73.9426">> :> <<3286535, 32865>>
        @@ <<"43.7338", "-74.7468", "41.19982596636056", "-73.97041982671311">> :> <<2888680, 28887>>
        @@ <<"43.7338", "-74.7468", "41.200197", "-73.9934">> :> <<2884182, 28842>>
        @@ <<"43.7338", "-74.7468", "0.0", "-73.9934">> :> <<48635524, 486355>> )
    @@ (   <<"43.7538", "-74.7268", "40.7505", "-73.9934">> :> <<3393590, 33936>>
        @@ <<"43.7538", "-74.7268", "40.8386", "-73.9426">> :> <<3305053, 33051>>
        @@ <<"43.7538", "-74.7268", "41.19982596636056", "-73.97041982671311">> :> <<2906811, 29068>>
        @@ <<"43.7538", "-74.7268", "41.200197", "-73.9934">> :> <<2902446, 29024>>
        @@ <<"43.7538", "-74.7268", "0.0", "-73.9934">> :> <<48657457, 486575>>
        @@ <<"43.7738", "-74.7068", "40.7505", "-73.9934">> :> <<3412592, 34126>>
        @@ <<"43.7738", "-74.7068", "40.8386", "-73.9426">> :> <<3323701, 33237>>
        @@ <<"43.7738", "-74.7068", "41.19982596636056", "-73.97041982671311">> :> <<2925093, 29251>>
        @@ <<"43.7738", "-74.7068", "41.200197", "-73.9934">> :> <<2920859, 29209>>
        @@ <<"43.7738", "-74.7068", "0.0", "-73.9934">> :> <<48679400, 486794>>
        @@ <<"43.793800000000005", "-74.68679999999999", "40.7505", "-73.9934">> :> <<3431714, 34317>>
        @@ <<"43.793800000000005", "-74.68679999999999", "40.8386", "-73.9426">> :> <<3342475, 33425>>
        @@ <<"43.793800000000005", "-74.68679999999999", "41.19982596636056", "-73.97041982671311">> :> <<2943523, 29435>>
        @@ <<"43.793800000000005", "-74.68679999999999", "41.200197", "-73.9934">> :> <<2939418, 29394>>
        @@ <<"43.793800000000005", "-74.68679999999999", "0.0", "-73.9934">> :> <<48701350, 487013>>
        @@ <<"43.8138", "-74.6668", "40.7505", "-73.9934">> :> <<3450953, 34510>>
        @@ <<"43.8138", "-74.6668", "40.8386", "-73.9426">> :> <<3361374, 33614>>
        @@ <<"43.8138", "-74.6668", "41.19982596636056", "-73.97041982671311">> :> <<2962098, 29621>>
        @@ <<"43.8138", "-74.6668", "41.200197", "-73.9934">> :> <<2958122, 29581>>
        @@ <<"43.8138", "-74.6668", "0.0", "-73.9934">> :> <<48723309, 487233>>
        @@ <<"43.833800000000004", "-74.6468", "40.7505", "-73.9934">> :> <<3470307, 34703>>
        @@ <<"43.833800000000004", "-74.6468", "40.8386", "-73.9426">> :> <<3380395, 33804>>
        @@ <<"43.833800000000004", "-74.6468", "41.19982596636056", "-73.97041982671311">> :> <<2980815, 29808>>
        @@ <<"43.833800000000004", "-74.6468", "41.200197", "-73.9934">> :> <<2976966, 29770>>
        @@ <<"43.833800000000004", "-74.6468", "0.0", "-73.9934">> :> <<48745277, 487453>>
        @@ <<"43.8538", "-74.62679999999999", "40.7505", "-73.9934">> :> <<3489776, 34898>>
        @@ <<"43.8538", "-74.62679999999999", "40.8386", "-73.9426">> :> <<3399537, 33995>>
        @@ <<"43.8538", "-74.62679999999999", "41.19982596636056", "-73.97041982671311">> :> <<2999672, 29997>>
        @@ <<"43.8538", "-74.62679999999999", "41.200197", "-73.9934">> :> <<2995948, 29959>>
        @@ <<"43.8538", "-74.62679999999999", "0.0", "-73.9934">> :> <<48767253, 487673>>
        @@ <<"43.8738", "-74.60679999999999", "40.7505", "-73.9934">> :> <<3509355, 35094>>
        @@ <<"43.8738", "-74.60679999999999", "40.8386", "-73.9426">> :> <<3418797, 34188>>
        @@ <<"43.8738", "-74.60679999999999", "41.19982596636056", "-73.97041982671311">> :> <<3018666, 30187>>
        @@ <<"43.8738", "-74.60679999999999", "41.200197", "-73.9934">> :> <<3015066, 30151>>
        @@ <<"43.8738", "-74.60679999999999", "0.0", "-73.9934">> :> <<48789238, 487892>>
        @@ <<"43.8938", "-74.5868", "40.7505", "-73.9934">> :> <<3529045, 35290>>
        @@ <<"43.8938", "-74.5868", "40.8386", "-73.9426">> :> <<3438173, 34382>>
        @@ <<"43.8938", "-74.5868", "41.19982596636056", "-73.97041982671311">> :> <<3037794, 30378>>
        @@ <<"43.8938", "-74.5868", "41.200197", "-73.9934">> :> <<3034316, 30343>>
        @@ <<"43.8938", "-74.5868", "0.0", "-73.9934">> :> <<48811230, 488112>>
        @@ <<"43.9138", "-74.5668", "40.7505", "-73.9934">> :> <<3548842, 35488>>
        @@ <<"43.9138", "-74.5668", "40.8386", "-73.9426">> :> <<3457663, 34577>>
        @@ <<"43.9138", "-74.5668", "41.19982596636056", "-73.97041982671311">> :> <<3057054, 30571>>
        @@ <<"43.9138", "-74.5668", "41.200197", "-73.9934">> :> <<3053697, 30537>>
        @@ <<"43.9138", "-74.5668", "0.0", "-73.9934">> :> <<48833232, 488332>>
        @@ <<"43.9338", "-74.54679999999999", "40.7505", "-73.9934">> :> <<3568744, 35687>>
        @@ <<"43.9338", "-74.54679999999999", "40.8386", "-73.9426">> :> <<3477266, 34773>>
        @@ <<"43.9338", "-74.54679999999999", "41.19982596636056", "-73.97041982671311">> :> <<3076443, 30764>>
        @@ <<"43.9338", "-74.54679999999999", "41.200197", "-73.9934">> :> <<3073205, 30732>>
        @@ <<"43.9338", "-74.54679999999999", "0.0", "-73.9934">> :> <<48855242, 488552>> )
    @@ (   <<"43.9538", "-74.5268", "40.7505", "-73.9934">> :> <<3588751, 35888>>
        @@ <<"43.9538", "-74.5268", "40.8386", "-73.9426">> :> <<3496978, 34970>>
        @@ <<"43.9538", "-74.5268", "41.19982596636056", "-73.97041982671311">> :> <<3095958, 30960>>
        @@ <<"43.9538", "-74.5268", "41.200197", "-73.9934">> :> <<3092839, 30928>>
        @@ <<"43.9538", "-74.5268", "0.0", "-73.9934">> :> <<48877260, 488773>>
        @@ <<"43.973800000000004", "-74.5068", "40.7505", "-73.9934">> :> <<3608860, 36089>>
        @@ <<"43.973800000000004", "-74.5068", "40.8386", "-73.9426">> :> <<3516799, 35168>>
        @@ <<"43.973800000000004", "-74.5068", "41.19982596636056", "-73.97041982671311">> :> <<3115598, 31156>>
        @@ <<"43.973800000000004", "-74.5068", "41.200197", "-73.9934">> :> <<3112595, 31126>>
        @@ <<"43.973800000000004", "-74.5068", "0.0", "-73.9934">> :> <<48899286, 488993>>
        @@ <<"43.9938", "-74.48679999999999", "40.7505", "-73.9934">> :> <<3629070, 36291>>
        @@ <<"43.9938", "-74.48679999999999", "40.8386", "-73.9426">> :> <<3536726, 35367>>
        @@ <<"43.9938", "-74.48679999999999", "41.19982596636056", "-73.97041982671311">> :> <<3135359, 31354>>
        @@ <<"43.9938", "-74.48679999999999", "41.200197", "-73.9934">> :> <<3132471, 31325>>
        @@ <<"43.9938", "-74.48679999999999", "0.0", "-73.9934">> :> <<48921321, 489213>>
        @@ <<"44.0138", "-74.46679999999999", "40.7505", "-73.9934">> :> <<3649378, 36494>>
        @@ <<"44.0138", "-74.46679999999999", "40.8386", "-73.9426">> :> <<3556758, 35568>>
        @@ <<"44.0138", "-74.46679999999999", "41.19982596636056", "-73.97041982671311">> :> <<3155240, 31552>>
        @@ <<"44.0138", "-74.46679999999999", "41.200197", "-73.9934">> :> <<3152466, 31525>>
        @@ <<"44.0138", "-74.46679999999999", "0.0", "-73.9934">> :> <<48943364, 489434>>
        @@ <<"44.0338", "-74.4468", "40.7505", "-73.9934">> :> <<3669784, 36698>>
        @@ <<"44.0338", "-74.4468", "40.8386", "-73.9426">> :> <<3576892, 35769>>
        @@ <<"44.0338", "-74.4468", "41.19982596636056", "-73.97041982671311">> :> <<3175237, 31752>>
        @@ <<"44.0338", "-74.4468", "41.200197", "-73.9934">> :> <<3172575, 31726>>
        @@ <<"44.0338", "-74.4468", "0.0", "-73.9934">> :> <<48965415, 489654>>
        @@ <<"44.0538", "-74.4268", "40.7505", "-73.9934">> :> <<3690284, 36903>>
        @@ <<"44.0538", "-74.4268", "40.8386", "-73.9426">> :> <<3597127, 35971>>
        @@ <<"44.0538", "-74.4268", "41.19982596636056", "-73.97041982671311">> :> <<3195349, 31953>>
        @@ <<"44.0538", "-74.4268", "41.200197", "-73.9934">> :> <<3192799, 31928>>
        @@ <<"44.0538", "-74.4268", "0.0", "-73.9934">> :> <<48987475, 489875>>
        @@ <<"44.0738", "-74.40679999999999", "40.7505", "-73.9934">> :> <<3710878, 37109>>
        @@ <<"44.0738", "-74.40679999999999", "40.8386", "-73.9426">> :> <<3617461, 36175>>
        @@ <<"44.0738", "-74.40679999999999", "41.19982596636056", "-73.97041982671311">> :> <<3215574, 32156>>
        @@ <<"44.0738", "-74.40679999999999", "41.200197", "-73.9934">> :> <<3213133, 32131>>
        @@ <<"44.0738", "-74.40679999999999", "0.0", "-73.9934">> :> <<49009543, 490095>>
        @@ <<"44.0938", "-74.3868", "40.7505", "-73.9934">> :> <<3731565, 37316>>
        @@ <<"44.0938", "-74.3868", "40.8386", "-73.9426">> :> <<3637893, 36379>>
        @@ <<"44.0938", "-74.3868", "41.19982596636056", "-73.97041982671311">> :> <<3235909, 32359>>
        @@ <<"44.0938", "-74.3868", "41.200197", "-73.9934">> :> <<3233576, 32336>>
        @@ <<"44.0938", "-74.3868", "0.0", "-73.9934">> :> <<49031619, 490316>>
        @@ <<"44.1138", "-74.3668", "40.7505", "-73.9934">> :> <<3752342, 37523>>
        @@ <<"44.1138", "-74.3668", "40.8386", "-73.9426">> :> <<3658420, 36584>>
        @@ <<"44.1138", "-74.3668", "41.19982596636056", "-73.97041982671311">> :> <<3256352, 32564>>
        @@ <<"44.1138", "-74.3668", "41.200197", "-73.9934">> :> <<3254126, 32541>>
        @@ <<"44.1138", "-74.3668", "0.0", "-73.9934">> :> <<49053703, 490537>>
        @@ <<"44.1338", "-74.34679999999999", "40.7505", "-73.9934">> :> <<3773207, 37732>>
        @@ <<"44.1338", "-74.34679999999999", "40.8386", "-73.9426">> :> <<3679041, 36790>>
        @@ <<"44.1338", "-74.34679999999999", "41.19982596636056", "-73.97041982671311">> :> <<3276901, 32769>>
        @@ <<"44.1338", "-74.34679999999999", "41.200197", "-73.9934">> :> <<3274781, 32748>>
        @@ <<"44.1338", "-74.34679999999999", "0.0", "-73.9934">> :> <<49075796, 490758>> )
    @@ (   <<"44.153800000000004", "-74.32679999999999", "40.7505", "-73.9934">> :> <<3794160, 37942>>
        @@ <<"44.153800000000004", "-74.32679999999999", "40.8386", "-73.9426">> :> <<3699755, 36998>>
        @@ <<"44.153800000000004", "-74.32679999999999", "41.19982596636056", "-73.97041982671311">> :> <<3297555, 32976>>
        @@ <<"44.153800000000004", "-74.32679999999999", "41.200197", "-73.9934">> :> <<3295538, 32955>>
        @@ <<"44.153800000000004", "-74.32679999999999", "0.0", "-73.9934">> :> <<49097897, 490979>>
        @@ <<"44.1738", "-74.3068", "40.7505", "-73.9934">> :> <<3815199, 38152>>
        @@ <<"44.1738", "-74.3068", "40.8386", "-73.9426">> :> <<3720559, 37206>>
        @@ <<"44.1738", "-74.3068", "41.19982596636056", "-73.97041982671311">> :> <<3318310, 33183>>
        @@ <<"44.1738", "-74.3068", "41.200197", "-73.9934">> :> <<3316396, 33164>>
        @@ <<"44.1738", "-74.3068", "0.0", "-73.9934">> :> <<49120006, 491200>>
        @@ <<"44.1938", "-74.2868", "40.7505", "-73.9934">> :> <<3836322, 38363>>
        @@ <<"44.1938", "-74.2868", "40.8386", "-73.9426">> :> <<3741453, 37415>>
        @@ <<"44.1938", "-74.2868", "41.19982596636056", "-73.97041982671311">> :> <<3339165, 33392>>
        @@ <<"44.1938", "-74.2868", "41.200197", "-73.9934">> :> <<3337353, 33374>>
        @@ <<"44.1938", "-74.2868", "0.0", "-73.9934">> :> <<49142123, 491421>>
        @@ <<"44.2138", "-74.26679999999999", "40.7505", "-73.9934">> :> <<3857528, 38575>>
        @@ <<"44.2138", "-74.26679999999999", "40.8386", "-73.9426">> :> <<3762434, 37624>>
        @@ <<"44.2138", "-74.26679999999999", "41.19982596636056", "-73.97041982671311">> :> <<3360118, 33601>>
        @@ <<"44.2138", "-74.26679999999999", "41.200197", "-73.9934">> :> <<3358406, 33584>>
        @@ <<"44.2138", "-74.26679999999999", "0.0", "-73.9934">> :> <<49164248, 491642>>
        @@ <<"44.2338", "-74.2468", "40.7505", "-73.9934">> :> <<3878816, 38788>>
        @@ <<"44.2338", "-74.2468", "40.8386", "-73.9426">> :> <<3783501, 37835>>
        @@ <<"44.2338", "-74.2468", "41.19982596636056", "-73.97041982671311">> :> <<3381167, 33812>>
        @@ <<"44.2338", "-74.2468", "41.200197", "-73.9934">> :> <<3379554, 33796>>
        @@ <<"44.2338", "-74.2468", "0.0", "-73.9934">> :> <<49186382, 491864>>
        @@ <<"44.2538", "-74.2268", "40.7505", "-73.9934">> :> <<3900183, 39002>>
        @@ <<"44.2538", "-74.2268", "40.8386", "-73.9426">> :> <<3804652, 38047>>
        @@ <<"44.2538", "-74.2268", "41.19982596636056", "-73.97041982671311">> :> <<3402311, 34023>>
        @@ <<"44.2538", "-74.2268", "41.200197", "-73.9934">> :> <<3400796, 34008>>
        @@ <<"44.2538", "-74.2268", "0.0", "-73.9934">> :> <<49208524, 492085>>
        @@ <<"44.2738", "-74.2068", "40.7505", "-73.9934">> :> <<3921630, 39216>>
        @@ <<"44.2738", "-74.2068", "40.8386", "-73.9426">> :> <<3825887, 38259>>
        @@ <<"44.2738", "-74.2068", "41.19982596636056", "-73.97041982671311">> :> <<3423546, 34235>>
        @@ <<"44.2738", "-74.2068", "41.200197", "-73.9934">> :> <<3422128, 34221>>
        @@ <<"44.2738", "-74.2068", "0.0", "-73.9934">> :> <<49230673, 492307>>
        @@ <<"44.293800000000005", "-74.18679999999999", "40.7505", "-73.9934">> :> <<3943153, 39432>>
        @@ <<"44.293800000000005", "-74.18679999999999", "40.8386", "-73.9426">> :> <<3847203, 38472>>
        @@ <<"44.293800000000005", "-74.18679999999999", "41.19982596636056", "-73.97041982671311">> :> <<3444873, 34449>>
        @@ <<"44.293800000000005", "-74.18679999999999", "41.200197", "-73.9934">> :> <<3443550, 34435>>
        @@ <<"44.293800000000005", "-74.18679999999999", "0.0", "-73.9934">> :> <<49252831, 492528>>
        @@ <<"44.3138", "-74.1668", "40.7505", "-73.9934">> :> <<3964753, 39648>>
        @@ <<"44.3138", "-74.1668", "40.8386", "-73.9426">> :> <<3868600, 38686>>
        @@ <<"44.3138", "-74.1668", "41.19982596636056", "-73.97041982671311">> :> <<3466288, 34663>>
        @@ <<"44.3138", "-74.1668", "41.200197", "-73.9934">> :> <<3465060, 34651>>
        @@ <<"44.3138", "-74.1668", "0.0", "-73.9934">> :> <<49274997, 492750>>
        @@ <<"44.333800000000004", "-74.1468", "40.7505", "-73.9934">> :> <<3986428, 39864>>
        @@ <<"44.333800000000004", "-74.1468", "40.8386", "-73.9426">> :> <<3890075, 38901>>
        @@ <<"44.333800000000004", "-74.1468", "41.19982596636056", "-73.97041982671311">> :> <<3487791, 34878>>
        @@ <<"44.333800000000004", "-74.1468", "41.200197", "-73.9934">> :> <<3486655, 34867>>
        @@ <<"44.333800000000004", "-74.1468", "0.0", "-73.9934">> :> <<49297171, 492972>> )
    @@ (   <<"44.3538", "-74.12679999999999", "40.7505", "-73.9934">> :> <<4008175, 40082>>
        @@ <<"44.3538", "-74.12679999999999", "40.8386", "-73.9426">> :> <<3911628, 39116>>
        @@ <<"44.3538", "-74.12679999999999", "41.19982596636056", "-73.97041982671311">> :> <<3509379, 35094>>
        @@ <<"44.3538", "-74.12679999999999", "41.200197", "-73.9934">> :> <<3508335, 35083>>
        @@ <<"44.3538", "-74.12679999999999", "0.0", "-73.9934">> :> <<49319352, 493194>>
        @@ <<"44.3738", "-74.10679999999999", "40.7505", "-73.9934">> :> <<4029995, 40300>>
        @@ <<"44.3738", "-74.10679999999999", "40.8386", "-73.9426">> :> <<3933257, 39333>>
        @@ <<"44.3738", "-74.10679999999999", "41.19982596636056", "-73.97041982671311">> :> <<3531051, 35311>>
        @@ <<"44.3738", "-74.10679999999999", "41.200197", "-73.9934">> :> <<3530098, 35301>>
        @@ <<"44.3738", "-74.10679999999999", "0.0", "-73.9934">> :> <<49341542, 493415>>
        @@ <<"44.3938", "-74.0868", "40.7505", "-73.9934">> :> <<4051886, 40519>>
        @@ <<"44.3938", "-74.0868", "40.8386", "-73.9426">> :> <<3954961, 39550>>
        @@ <<"44.3938", "-74.0868", "41.19982596636056", "-73.97041982671311">> :> <<3552806, 35528>>
        @@ <<"44.3938", "-74.0868", "41.200197", "-73.9934">> :> <<3551942, 35519>>
        @@ <<"44.3938", "-74.0868", "0.0", "-73.9934">> :> <<49363740, 493637>>
        @@ <<"44.4138", "-74.0668", "40.7505", "-73.9934">> :> <<4073847, 40738>>
        @@ <<"44.4138", "-74.0668", "40.8386", "-73.9426">> :> <<3976738, 39767>>
        @@ <<"44.4138", "-74.0668", "41.19982596636056", "-73.97041982671311">> :> <<3574641, 35746>>
        @@ <<"44.4138", "-74.0668", "41.200197", "-73.9934">> :> <<3573865, 35739>>
        @@ <<"44.4138", "-74.0668", "0.0", "-73.9934">> :> <<49385946, 493859>>
        @@ <<"44.4338", "-74.04679999999999", "40.7505", "-73.9934">> :> <<4095876, 40959>>
        @@ <<"44.4338", "-74.04679999999999", "40.8386", "-73.9426">> :> <<3998588, 39986>>
        @@ <<"44.4338", "-74.04679999999999", "41.19982596636056", "-73.97041982671311">> :> <<3596555, 35966>>
        @@ <<"44.4338", "-74.04679999999999", "41.200197", "-73.9934">> :> <<3595867, 35959>>
        @@ <<"44.4338", "-74.04679999999999", "0.0", "-73.9934">> :> <<49408160, 494082>>
        @@ <<"44.4538", "-74.0268", "40.7505", "-73.9934">> :> <<4117973, 41180>>
        @@ <<"44.4538", "-74.0268", "40.8386", "-73.9426">> :> <<4020509, 40205>>
        @@ <<"44.4538", "-74.0268", "41.19982596636056", "-73.97041982671311">> :> <<3618546, 36185>>
        @@ <<"44.4538", "-74.0268", "41.200197", "-73.9934">> :> <<3617944, 36179>>
        @@ <<"44.4538", "-74.0268", "0.0", "-73.9934">> :> <<49430382, 494304>>
        @@ <<"44.473800000000004", "-74.0068", "40.7505", "-73.9934">> :> <<4140136, 41401>>
        @@ <<"44.473800000000004", "-74.0068", "40.8386", "-73.9426">> :> <<4042499, 40425>>
        @@ <<"44.473800000000004", "-74.0068", "41.19982596636056", "-73.97041982671311">> :> <<3640614, 36406>>
        @@ <<"44.473800000000004", "-74.0068", "41.200197", "-73.9934">> :> <<3640097, 36401>>
        @@ <<"44.473800000000004", "-74.0068", "0.0", "-73.9934">> :> <<49452612, 494526>>
        @@ <<"44.4938", "-73.98679999999999", "40.7505", "-73.9934">> :> <<4162364, 41624>>
        @@ <<"44.4938", "-73.98679999999999", "40.8386", "-73.9426">> :> <<4064558, 40646>>
        @@ <<"44.4938", "-73.98679999999999", "41.19982596636056", "-73.97041982671311">> :> <<3662757, 36628>>
        @@ <<"44.4938", "-73.98679999999999", "41.200197", "-73.9934">> :> <<3662324, 36623>>
        @@ <<"44.4938", "-73.98679999999999", "0.0", "-73.9934">> :> <<49474849, 494748>>
        @@ <<"44.5138", "-73.96679999999999", "40.7505", "-73.9934">> :> <<4184656, 41847>>
        @@ <<"44.5138", "-73.96679999999999", "40.8386", "-73.9426">> :> <<4086684, 40867>>
        @@ <<"44.5138", "-73.96679999999999", "41.19982596636056", "-73.97041982671311">> :> <<3684973, 36850>>
        @@ <<"44.5138", "-73.96679999999999", "41.200197", "-73.9934">> :> <<3684623, 36846>>
        @@ <<"44.5138", "-73.96679999999999", "0.0", "-73.9934">> :> <<49497095, 494971>>
        @@ <<"44.5338", "-73.9468", "40.7505", "-73.9934">> :> <<4207011, 42070>>
        @@ <<"44.5338", "-73.9468", "40.8386", "-73.9426">> :> <<4108877, 41089>>
        @@ <<"44.5338", "-73.9468", "41.19982596636056", "-73.97041982671311">> :> <<3707260, 37073>>
        @@ <<"44.5338", "-73.9468", "41.200197", "-73.9934">> :> <<3706992, 37070>>
        @@ <<"44.5338", "-73.9468", "0.0", "-73.9934">> :> <<49519348, 495193>> )
    @@ (   <<"44.5538", "-73.9268", "40.7505", "-73.9934">> :> <<4229427, 42294>>
        @@ <<"44.5538", "-73.9268", "40.8386", "-73.9426">> :> <<4131135, 41311>>
        @@ <<"44.5538", "-73.9268", "41.19982596636056", "-73.97041982671311">> :> <<3729619, 37296>>
        @@ <<"44.5538", "-73.9268", "41.200197", "-73.9934">> :> <<3729431, 37294>>
        @@ <<"44.5538", "-73.9268", "0.0", "-73.9934">> :> <<49541609, 495416>>
        @@ <<"44.5738", "-73.90679999999999", "40.7505", "-73.9934">> :> <<4251905, 42519>>
        @@ <<"44.5738", "-73.90679999999999", "40.8386", "-73.9426">> :> <<4153456, 41535>>
        @@ <<"44.5738", "-73.90679999999999", "41.19982596636056", "-73.97041982671311">> :> <<3752046, 37520>>
        @@ <<"44.5738", "-73.90679999999999", "41.200197", "-73.9934">> :> <<3751939, 37519>>
        @@ <<"44.5738", "-73.90679999999999", "0.0", "-73.9934">> :> <<49563879, 495639>>
        @@ <<"44.5938", "-73.8868", "40.7505", "-73.9934">> :> <<4274442, 42744>>
        @@ <<"44.5938", "-73.8868", "40.8386", "-73.9426">> :> <<4175841, 41758>>
        @@ <<"44.5938", "-73.8868", "41.19982596636056", "-73.97041982671311">> :> <<3774541, 37745>>
        @@ <<"44.5938", "-73.8868", "41.200197", "-73.9934">> :> <<3774513, 37745>>
        @@ <<"44.5938", "-73.8868", "0.0", "-73.9934">> :> <<49586156, 495862>>
        @@ <<"44.6138", "-73.8668", "40.7505", "-73.9934">> :> <<4297039, 42970>>
        @@ <<"44.6138", "-73.8668", "40.8386", "-73.9426">> :> <<4198287, 41983>>
        @@ <<"44.6138", "-73.8668", "41.19982596636056", "-73.97041982671311">> :> <<3797103, 37971>>
        @@ <<"44.6138", "-73.8668", "41.200197", "-73.9934">> :> <<3797153, 37972>>
        @@ <<"44.6138", "-73.8668", "0.0", "-73.9934">> :> <<49608440, 496084>>
        @@ <<"44.6338", "-73.84679999999999", "40.7505", "-73.9934">> :> <<4319693, 43197>>
        @@ <<"44.6338", "-73.84679999999999", "40.8386", "-73.9426">> :> <<4220795, 42208>>
        @@ <<"44.6338", "-73.84679999999999", "41.19982596636056", "-73.97041982671311">> :> <<3819731, 38197>>
        @@ <<"44.6338", "-73.84679999999999", "41.200197", "-73.9934">> :> <<3819857, 38199>>
        @@ <<"44.6338", "-73.84679999999999", "0.0", "-73.9934">> :> <<49630733, 496307>>
        @@ <<"44.653800000000004", "-73.82679999999999", "40.7505", "-73.9934">> :> <<4342404, 43424>>
        @@ <<"44.653800000000004", "-73.82679999999999", "40.8386", "-73.9426">> :> <<4243362, 42434>>
        @@ <<"44.653800000000004", "-73.82679999999999", "41.19982596636056", "-73.97041982671311">> :> <<3842422, 38424>>
        @@ <<"44.653800000000004", "-73.82679999999999", "41.200197", "-73.9934">> :> <<3842624, 38426>>
        @@ <<"44.653800000000004", "-73.82679999999999", "0.0", "-73.9934">> :> <<49653033, 496530>>
        @@ <<"44.6738", "-73.8068", "40.7505", "-73.9934">> :> <<4365171, 43652>>
        @@ <<"44.6738", "-73.8068", "40.8386", "-73.9426">> :> <<4265987, 42660>>
        @@ <<"44.6738", "-73.8068", "41.19982596636056", "-73.97041982671311">> :> <<3865177, 38652>>
        @@ <<"44.6738", "-73.8068", "41.200197", "-73.9934">> :> <<3865453, 38655>>
        @@ <<"44.6738", "-73.8068", "0.0", "-73.9934">> :> <<49675341, 496753>>
        @@ <<"44.6938", "-73.7868", "40.7505", "-73.9934">> :> <<4387992, 43880>>
        @@ <<"44.6938", "-73.7868", "40.8386", "-73.9426">> :> <<4288671, 42887>>
        @@ <<"44.6938", "-73.7868", "41.19982596636056", "-73.97041982671311">> :> <<3887993, 38880>>
        @@ <<"44.6938", "-73.7868", "41.200197", "-73.9934">> :> <<3888344, 38883>>
        @@ <<"44.6938", "-73.7868", "0.0", "-73.9934">> :> <<49697657, 496977>>
        @@ <<"44.7138", "-73.76679999999999", "40.7505", "-73.9934">> :> <<4410868, 44109>>
        @@ <<"44.7138", "-73.76679999999999", "40.8386", "-73.9426">> :> <<4311411, 43114>>
        @@ <<"44.7138", "-73.76679999999999", "41.19982596636056", "-73.97041982671311">> :> <<3910869, 39109>>
        @@ <<"44.7138", "-73.76679999999999", "41.200197", "-73.9934">> :> <<3911293, 39113>>
        @@ <<"44.7138", "-73.76679999999999", "0.0", "-73.9934">> :> <<49719981, 497200>>
        @@ <<"44.7338", "-73.7468", "40.7505", "-73.9934">> :> <<4433797, 44338>>
        @@ <<"44.7338", "-73.7468", "40.8386", "-73.9426">> :> <<4334207, 43342>>
        @@ <<"44.7338", "-73.7468", "41.19982596636056", "-73.97041982671311">> :> <<3933806, 39338>>
        @@ <<"44.7338", "-73.7468", "41.200197", "-73.9934">> :> <<3934302, 39343>>
        @@ <<"44.7338", "-73.7468", "0.0", "-73.9934">> :> <<49742312, 497423>> )
    @@ (   <<"44.7538", "-73.7268", "40.7505", "-73.9934">> :> <<4456778, 44568>>
        @@ <<"44.7538", "-73.7268", "40.8386", "-73.9426">> :> <<4357059, 43571>>
        @@ <<"44.7538", "-73.7268", "41.19982596636056", "-73.97041982671311">> :> <<3956800, 39568>>
        @@ <<"44.7538", "-73.7268", "41.200197", "-73.9934">> :> <<3957368, 39574>>
        @@ <<"44.7538", "-73.7268", "0.0", "-73.9934">> :> <<49764651, 497647>>
        @@ <<"44.7738", "-73.7068", "40.7505", "-73.9934">> :> <<4479811, 44798>>
        @@ <<"44.7738", "-73.7068", "40.8386", "-73.9426">> :> <<4379964, 43800>>
        @@ <<"44.7738", "-73.7068", "41.19982596636056", "-73.97041982671311">> :> <<3979852, 39799>>
        @@ <<"44.7738", "-73.7068", "41.200197", "-73.9934">> :> <<3980490, 39805>>
        @@ <<"44.7738", "-73.7068", "0.0", "-73.9934">> :> <<49786998, 497870>>
        @@ <<"44.793800000000005", "-73.68679999999999", "40.7505", "-73.9934">> :> <<4502894, 45029>>
        @@ <<"44.793800000000005", "-73.68679999999999", "40.8386", "-73.9426">> :> <<4402922, 44029>>
        @@ <<"44.793800000000005", "-73.68679999999999", "41.19982596636056", "-73.97041982671311">> :> <<4002960, 40030>>
        @@ <<"44.793800000000005", "-73.68679999999999", "41.200197", "-73.9934">> :> <<4003668, 40037>>
        @@ <<"44.793800000000005", "-73.68679999999999", "0.0", "-73.9934">> :> <<49809352, 498094>>
        @@ <<"44.8138", "-73.6668", "40.7505", "-73.9934">> :> <<4526027, 45260>>
        @@ <<"44.8138", "-73.6668", "40.8386", "-73.9426">> :> <<4425932, 44259>>
        @@ <<"44.8138", "-73.6668", "41.19982596636056", "-73.97041982671311">> :> <<4026124, 40261>>
        @@ <<"44.8138", "-73.6668", "41.200197", "-73.9934">> :> <<4026900, 40269>>
        @@ <<"44.8138", "-73.6668", "0.0", "-73.9934">> :> <<49831714, 498317>>
        @@ <<"44.833800000000004", "-73.6468", "40.7505", "-73.9934">> :> <<4549209, 45492>>
        @@ <<"44.833800000000004", "-73.6468", "40.8386", "-73.9426">> :> <<4448993, 44490>>
        @@ <<"44.833800000000004", "-73.6468", "41.19982596636056", "-73.97041982671311">> :> <<4049341, 40493>>
        @@ <<"44.833800000000004", "-73.6468", "41.200197", "-73.9934">> :> <<4050185, 40502>>
        @@ <<"44.833800000000004", "-73.6468", "0.0", "-73.9934">> :> <<49854084, 498541>>
        @@ <<"44.8538", "-73.62679999999999", "40.7505", "-73.9934">> :> <<4572439, 45724>>
        @@ <<"44.8538", "-73.62679999999999", "40.8386", "-73.9426">> :> <<4472105, 44721>>
        @@ <<"44.8538", "-73.62679999999999", "41.19982596636056", "-73.97041982671311">> :> <<4072612, 40726>>
        @@ <<"44.8538", "-73.62679999999999", "41.200197", "-73.9934">> :> <<4073523, 40735>>
        @@ <<"44.8538", "-73.62679999999999", "0.0", "-73.9934">> :> <<49876461, 498765>>
        @@ <<"44.8738", "-73.60679999999999", "40.7505", "-73.9934">> :> <<4595717, 45957>>
        @@ <<"44.8738", "-73.60679999999999", "40.8386", "-73.9426">> :> <<4495267, 44953>>
        @@ <<"44.8738", "-73.60679999999999", "41.19982596636056", "-73.97041982671311">> :> <<4095935, 40959>>
        @@ <<"44.8738", "-73.60679999999999", "41.200197", "-73.9934">> :> <<4096912, 40969>>
        @@ <<"44.8738", "-73.60679999999999", "0.0", "-73.9934">> :> <<49898846, 498988>>
        @@ <<"44.8938", "-73.5868", "40.7505", "-73.9934">> :> <<4619040, 46190>>
        @@ <<"44.8938", "-73.5868", "40.8386", "-73.9426">> :> <<4518477, 45185>>
        @@ <<"44.8938", "-73.5868", "41.19982596636056", "-73.97041982671311">> :> <<4119310, 41193>>
        @@ <<"44.8938", "-73.5868", "41.200197", "-73.9934">> :> <<4120352, 41204>>
        @@ <<"44.8938", "-73.5868", "0.0", "-73.9934">> :> <<49921239, 499212>>
        @@ <<"44.9138", "-73.5668", "40.7505", "-73.9934">> :> <<4642410, 46424>>
        @@ <<"44.9138", "-73.5668", "40.8386", "-73.9426">> :> <<4541736, 45417>>
        @@ <<"44.9138", "-73.5668", "41.19982596636056", "-73.97041982671311">> :> <<4142734, 41427>>
        @@ <<"44.9138", "-73.5668", "41.200197", "-73.9934">> :> <<4143841, 41438>>
        @@ <<"44.9138", "-73.5668", "0.0", "-73.9934">> :> <<49943639, 499436>>
        @@ <<"44.9338", "-73.54679999999999", "40.7505", "-73.9934">> :> <<4665825, 46658>>
        @@ <<"44.9338", "-73.54679999999999", "40.8386", "-73.9426">> :> <<4565041, 45650>>
        @@ <<"44.9338", "-73.54679999999999", "41.19982596636056", "-73.97041982671311">> :> <<4166208, 41662>>
        @@ <<"44.9338", "-73.54679999999999", "41.200197", "-73.9934">> :> <<4167379, 41674>>
        @@ <<"44.9338", "-73.54679999999999", "0.0", "-73.9934">> :> <<49966046, 499660>> )
    @@ (   <<"40.7505", "-73.9934", "0.0", "0.0">> :> <<86667956, 866680>>
        @@ <<"40.7505", "-73.9934", "0.0", "180.0">> :> <<113482913, 1134829>>
        @@ <<"40.7505", "-73.9934", "-82.0", "-180.0">> :> <<147324302, 1473243>>
        @@ <<"40.7505", "-73.9934", "82.0", "0.0">> :> <<52826567, 528266>>
        @@ <<"40.7505", "-73.9934", "90.0", "0.0">> :> <<54762946, 547629>>
        @@ <<"40.7505", "-73.9934", "-90.0", "0.0">> :> <<145387923, 1453879>>
        @@ <<"40.8386", "-73.9426", "40.7505", "-73.9934">> :> <<106890, 1069>>
        @@ <<"40.8386", "-73.9426", "40.8386", "-73.9426">> :> <<0, 0>>
        @@ <<"40.8386", "-73.9426", "0.0", "0.0">> :> <<86644002, 866440>>
        @@ <<"40.8386", "-73.9426", "0.0", "180.0">> :> <<113506867, 1135069>>
        @@ <<"40.8386", "-73.9426", "-82.0", "-180.0">> :> <<147428400, 1474284>>
        @@ <<"40.8386", "-73.9426", "82.0", "0.0">> :> <<52722469, 527225>>
        @@ <<"40.8386", "-73.9426", "90.0", "0.0">> :> <<54664983, 546650>>
        @@ <<"40.8386", "-73.9426", "-90.0", "0.0">> :> <<145485886, 1454859>>
        @@ <<"0.0", "0.0", "40.7505", "-73.9934">> :> <<86667956, 866680>>
        @@ <<"0.0", "0.0", "40.8386", "-73.9426">> :> <<86644002, 866440>>
        @@ <<"0.0", "0.0", "0.0", "0.0">> :> <<0, 0>>
        @@ <<"0.0", "0.0", "0.0", "180.0">> :> <<200150868, 2001509>>
        @@ <<"0.0", "0.0", "-82.0", "-180.0">> :> <<108971029, 1089710>>
        @@ <<"0.0", "0.0", "82.0", "0.0">> :> <<91179840, 911798>>
        @@ <<"0.0", "0.0", "90.0", "0.0">> :> <<100075434, 1000754>>
        @@ <<"0.0", "0.0", "-90.0", "0.0">> :> <<100075434, 1000754>>
        @@ <<"0.0", "180.0", "40.7505", "-73.9934">> :> <<113482913, 1134829>>
        @@ <<"0.0", "180.0", "40.8386", "-73.9426">> :> <<113506867, 1135069>>
        @@ <<"0.0", "180.0", "0.0", "0.0">> :> <<200150868, 2001509>>
        @@ <<"0.0", "180.0", "0.0", "180.0">> :> <<0, 0>>
        @@ <<"0.0", "180.0", "-82.0", "-180.0">> :> <<91179840, 911798>>
        @@ <<"0.0", "180.0", "82.0", "0.0">> :> <<108971029, 1089710>>
        @@ <<"0.0", "180.0", "90.0", "0.0">> :> <<100075434, 1000754>>
        @@ <<"0.0", "180.0", "-90.0", "0.0">> :> <<100075434, 1000754>>
        @@ <<"-82.0", "-180.0", "40.7505", "-73.9934">> :> <<147324302, 1473243>>
        @@ <<"-82.0", "-180.0", "40.8386", "-73.9426">> :> <<147428400, 1474284>>
        @@ <<"-82.0", "-180.0", "0.0", "0.0">> :> <<108971029, 1089710>>
        @@ <<"-82.0", "-180.0", "0.0", "180.0">> :> <<91179840, 911798>>
        @@ <<"-82.0", "-180.0", "-82.0", "-180.0">> :> <<0, 0>>
        @@ <<"-82.0", "-180.0", "82.0", "0.0">> :> <<2147483647, 2147483647>>
        @@ <<"-82.0", "-180.0", "90.0", "0.0">> :> <<191255274, 1912553>>
        @@ <<"-82.0", "-180.0", "-90.0", "0.0">> :> <<8895595, 88956>>
        @@ <<"82.0", "0.0", "40.7505", "-73.9934">> :> <<52826567, 528266>>
        @@ <<"82.0", "0.0", "40.8386", "-73.9426">> :> <<52722469, 527225>>
        @@ <<"82.0", "0.0", "0.0", "0.0">> :> <<91179840, 911798>>
        @@ <<"82.0", "0.0", "0.0", "180.0">> :> <<108971029, 1089710>>
        @@ <<"82.0", "0.0", "-82.0", "-180.0">> :> <<2147483647, 2147483647>>
        @@ <<"82.0", "0.0", "82.0", "0.0">> :> <<0, 0>>
        @@ <<"82.0", "0.0", "90.0", "0.0">> :> <<8895595, 88956>>
        @@ <<"82.0", "0.0", "-90.0", "0.0">> :> <<191255274, 1912553>>
        @@ <<"90.0", "0.0", "40.7505", "-73.9934">> :> <<54762946, 547629>>
        @@ <<"90.0", "0.0", "40.8386", "-73.9426">> :> <<54664983, 546650>>
        @@ <<"90.0", "0.0", "0.0", "0.0">> :> <<100075434, 1000754>>
        @@ <<"90.0", "0.0", "0.0", "180.0">> :> <<100075434, 1000754>>
        @@ <<"90.0", "0.0", "-82.0", "-180.0">> :> <<191255274, 1912553>>
        @@ <<"90.0", "0.0", "82.0", "0.0">> :> <<8895595, 88956>>
        @@ <<"90.0", "0.0", "90.0", "0.0">> :> <<0, 0>>
        @@ <<"90.0", "0.0", "-90.0", "0.0">> :> <<200150868, 2001509>>
        @@ <<"-90.0", "0.0", "40.7505", "-73.9934">> :> <<145387923, 1453879>>
        @@ <<"-90.0", "0.0", "40.8386", "-73.9426">> :> <<145485886, 1454859>>
        @@ <<"-90.0", "0.0", "0.0", "0.0">> :> <<100075434, 1000754>>
        @@ <<"-90.0", "0.0", "0.0", "180.0">> :> <<100075434, 1000754>>
        @@ <<"-90.0", "0.0", "-82.0", "-180.0">> :> <<8895595, 88956>>
        @@ <<"-90.0", "0.0", "82.0", "0.0">> :> <<191255274, 1912553>>
        @@ <<"-90.0", "0.0", "90.0", "0.0">> :> <<200150868, 2001509>>
        @@ <<"-90.0", "0.0", "-90.0", "0.0">> :> <<0, 0>> )

_calculate_distance(lat1, lng1, lat2, lng2) == HaversineTable[<<lat1, lng1, lat2, lng2>>][1]
\* round(distance, 2) at line 113
RoundedDistance(lat1, lng1, lat2, lng2) == HaversineTable[<<lat1, lng1, lat2, lng2>>][2]

\* A radius comparison that leaves the boundary out.
WithinRadius_Strict(distance, radius) == distance < radius * 10000

\* distance <= radius_km at line 100, radius_km a whole number of kilometres
WithinRadius(distance, radius) == distance <= radius * 10000

(***************************************************************************)
(* Python floats. A float is an IEEE 754 double; the scores are sums and   *)
(* products of doubles, each operation rounded to the nearest double, to   *)
(* the even one on a tie. A double x of the model is held exactly, as the  *)
(* whole number x * 2^75 written in limbs of 15 bits, the least            *)
(* significant first: five limbs of fraction and one of whole part. That   *)
(* holds 0 and every double from 2^-22 to below 2^15, the range of the     *)
(* scores and of their terms.                                              *)
(***************************************************************************)
LIMB == 2^15
Pow2 == [i \in 0..15 |-> 2^i]

RECURSIVE BitLen(_)
BitLen(x) == IF x = 0 THEN 0 ELSE 1 + BitLen(x \div 2)
RECURSIVE TopLimb(_, _)
TopLimb(n, k) == IF k = 0 THEN 0 ELSE IF n[k] # 0 THEN k ELSE TopLimb(n, k - 1)
BitsUpTo(n, top) == IF top = 0 THEN 0 ELSE 15 * (top - 1) + BitLen(n[top])
\* The number of bits of the whole number n.
BitLength(n) == BitsUpTo(n, TopLimb(n, Len(n)))

\* Bit i of n, counted from 0, and whether a bit under bit i is set.
Bit(n, i) == (n[(i \div 15) + 1] \div Pow2[i % 15]) % 2
AnyBitBelow(n, i) ==
    \/ \E k \in 1..(i \div 15) : n[k] # 0
    \/ n[(i \div 15) + 1] % Pow2[i % 15] # 0
\* n with the bits under bit s cleared.
ClearBelow(n, s) ==
    [ k \in 1..Len(n) |->
        IF k <= s \div 15 THEN 0
        ELSE IF k = (s \div 15) + 1 THEN n[k] - (n[k] % Pow2[s % 15])
        ELSE n[k] ]
\* n + v * 2^(15 * (k - 1))
RECURSIVE AddAt(_, _, _)
AddAt(n, k, v) ==
    IF v = 0 \/ k > Len(n) THEN n
    ELSE AddAt(SubSeq(n, 1, k - 1) \o <<(n[k] + v) % LIMB>> \o SubSeq(n, k + 1, Len(n)),
               k + 1, (n[k] + v) \div LIMB)

\* Round to nearest, ties to even, at bit s: the bits under s are dropped,
\* and the rest goes up by one when the dropped part is above a half, or is
\* a half and bit s is set. sticky: the exact value has more under n.
RoundAt(n, sticky, s) ==
    IF Bit(n, s - 1) = 1 /\ (sticky \/ AnyBitBelow(n, s - 1) \/ Bit(n, s) = 1)
    THEN AddAt(ClearBelow(n, s), (s \div 15) + 1, Pow2[s % 15])
    ELSE ClearBelow(n, s)
RoundBits(n, sticky, bits) ==
    IF bits <= 53 THEN n ELSE RoundAt(n, sticky, bits - 53)
\* The nearest double to an exact value: its 53 leading bits, rounded.
RoundToDouble(n, sticky) == RoundBits(n, sticky, BitLength(n))

RECURSIVE AddLimbs(_, _, _, _)
AddLimbs(a, b, k, carry) ==
    IF k > Len(a) THEN << >>
    ELSE <<(a[k] + b[k] + carry) % LIMB>>
         \o AddLimbs(a, b, k + 1, (a[k] + b[k] + carry) \div LIMB)
RECURSIVE SubLimbs(_, _, _, _)
SubLimbs(a, b, k, borrow) ==
    IF k > Len(a) THEN << >>
    ELSE <<(a[k] - b[k] - borrow + LIMB) % LIMB>>
         \o SubLimbs(a, b, k + 1, IF a[k] - b[k] - borrow < 0 THEN 1 ELSE 0)
\* a * d for a limb d, one limb longer than a.
RECURSIVE MulLimb(_, _, _, _)
MulLimb(a, d, k, carry) ==
    IF k > Len(a) THEN <<carry>>
    ELSE <<(a[k] * d + carry) % LIMB>> \o MulLimb(a, d, k + 1, (a[k] * d + carry) \div LIMB)
Zeros(n) == [k \in 1..n |-> 0]
\* a * b from limb j of b on, in twelve limbs.
RECURSIVE MulLimbs(_, _, _)
MulLimbs(a, b, j) ==
    IF j > Len(b) THEN Zeros(12)
    ELSE IF b[j] = 0 THEN MulLimbs(a, b, j + 1)
    ELSE AddLimbs(Zeros(j - 1) \o MulLimb(a, b[j], 1, 0) \o Zeros(6 - j),
                  MulLimbs(a, b, j + 1), 1, 0)

\* a > b
RECURSIVE LimbsAbove(_, _, _)
LimbsAbove(a, b, k) ==
    IF k = 0 THEN FALSE
    ELSE IF a[k] # b[k] THEN a[k] > b[k]
    ELSE LimbsAbove(a, b, k - 1)
FloatAbove(a, b) == LimbsAbove(a, b, 6)

\* The digits of r / b in base 32, the first n, and the remainder after them.
RECURSIVE FractionDigits(_, _, _)
FractionDigits(r, b, n) ==
    IF n = 0 THEN <<r>>
    ELSE <<(32 * r) \div b>> \o FractionDigits((32 * r) % b, b, n - 1)
FloatOfDigits(whole, d) ==
    RoundToDouble(<< 1024 * d[13] + 32 * d[14] + d[15], 1024 * d[10] + 32 * d[11] + d[12],
                     1024 * d[7] + 32 * d[8] + d[9], 1024 * d[4] + 32 * d[5] + d[6],
                     1024 * d[1] + 32 * d[2] + d[3], whole >>,
                  d[16] # 0)
\* a / b on two whole numbers that are doubles (b below 2^26): the nearest
\* double to the quotient. The literal 0.4 is 4 / 10, a rating of 8.3 is
\* 83 / 10.
FloatDiv(a, b) == FloatOfDigits(a \div b, FractionDigits(a % b, b, 15))
FloatOfInt(n) == Zeros(5) \o <<n>>
FLOAT_ZERO == Zeros(6)

\* x + y, x - y for x >= y, and x * y on doubles.
FloatAdd(x, y) == RoundToDouble(AddLimbs(x, y, 1, 0), FALSE)
FloatSub(x, y) == RoundToDouble(SubLimbs(x, y, 1, 0), FALSE)
FloatMul(x, y) ==
    SubSeq(RoundToDouble(MulLimbs(x, y, 1), FALSE), 6, 11)

\* round(x, 1): the exact value of the double, rounded to a tenth, to the
\* even tenth on a tie, and the nearest double to that.
HALF == <<0, 0, 0, 0, 16384>>
TenthsOfTimesTen(t) ==
    t[6] + LIMB * t[7]
    + (IF LimbsAbove(SubSeq(t, 1, 5), HALF, 5) THEN 1
       ELSE IF SubSeq(t, 1, 5) = HALF THEN t[6] % 2
       ELSE 0)
TenthsOf(x) == TenthsOfTimesTen(MulLimb(x, 10, 1, 0))
RoundToTenth(x) == FloatDiv(TenthsOf(x), 10)

(***************************************************************************)
(* ProviderService: the composite ranker.                                  *)
(***************************************************************************)
\* round(avg_rating, 1), hundredths to tenths, for a rating of 0 to 10.  On
\* 5 hundredths the double decides: round rounds the binary value, to even
\* when it is exact (8.25 gives 8.2, 8.75 gives 8.8, 8.35 gives 8.3).  The
\* averages ending in 5 hundredths that round up:
HalfRoundsUp ==
    { 5, 45, 55, 65, 75, 105, 135, 155, 175, 185, 235, 245, 275, 285, 295, 335, 345, 375,
      385, 395, 415, 445, 465, 475, 495, 515, 545, 565, 575, 595, 615, 645, 665, 675, 695,
      715, 745, 765, 775, 795, 805, 815, 855, 865, 875, 905, 915, 955, 965, 975 }
RoundRating(avg) ==
    IF avg % 10 = 5 THEN (avg \div 10) + (IF avg \in HalfRoundsUp THEN 1 ELSE 0)
    ELSE (avg + 5) \div 10

\* math.log(n) for n of 1 to 148, as the C library returns it.
LogTable ==
    << <<0, 0, 0, 0, 0, 0>>,
       <<0, 30592, 31289, 1533, 22713, 0>>,
       <<0, 2816, 23046, 10730, 3231, 1>>,
       <<0, 28416, 29811, 3067, 12658, 1>>,
       <<0, 13056, 23322, 2015, 19970, 1>>,
       <<0, 512, 21568, 12264, 25944, 1>>,
       <<0, 22272, 25780, 19128, 30995, 1>>,
       <<0, 26112, 28333, 4601, 2603, 2>>,
       <<0, 5632, 13324, 21461, 6462, 2>>,
       <<0, 11264, 21844, 3549, 9915, 2>>,
       <<0, 6144, 31965, 7611, 13038, 2>>,
       <<0, 31232, 20089, 13798, 15889, 2>>,
       <<0, 8704, 17969, 8537, 18512, 2>>,
       <<0, 19968, 24302, 20662, 20940, 2>>,
       <<0, 15872, 13600, 12746, 23201, 2>>,
       <<0, 24064, 26855, 6135, 25316, 2>>,
       <<0, 29696, 27133, 24079, 27302, 2>>,
       <<0, 3072, 11846, 22995, 29175, 2>>,
       <<0, 22528, 4812, 12336, 30947, 2>>,
       <<0, 8704, 20366, 5083, 32628, 2>>,
       <<0, 25088, 16058, 29859, 1458, 3>>,
       <<0, 4096, 30487, 9145, 2983, 3>>,
       <<0, 24576, 18127, 28654, 4439, 3>>,
       <<0, 29184, 18611, 15332, 5834, 3>>,
       <<0, 26112, 13876, 4031, 7172, 3>>,
       <<0, 6656, 16491, 10071, 8457, 3>>,
       <<0, 8192, 3602, 32192, 9693, 3>>,
       <<0, 17920, 22824, 22196, 10885, 3>>,
       <<0, 15872, 14328, 18014, 12035, 3>>,
       <<0, 13824, 12122, 14280, 13146, 3>>,
       <<0, 13312, 17581, 29252, 14220, 3>>,
       <<0, 22016, 25377, 7669, 15261, 3>>,
       <<0, 8704, 22243, 18342, 16269, 3>>,
       <<0, 27648, 25655, 25613, 17247, 3>>,
       <<0, 2560, 16335, 21144, 18197, 3>>,
       <<0, 1024, 10368, 24529, 19120, 3>>,
       <<0, 31232, 27422, 18289, 20018, 3>>,
       <<0, 20480, 3334, 13870, 20892, 3>>,
       <<0, 11264, 8247, 19268, 21743, 3>>,
       <<0, 6656, 18888, 6617, 22573, 3>>,
       <<0, 7168, 15025, 10796, 23382, 3>>,
       <<0, 23040, 14580, 31393, 24171, 3>>,
       <<0, 8704, 21424, 176, 24943, 3>>,
       <<0, 1536, 29009, 10679, 25696, 3>>,
       <<0, 18432, 3878, 23477, 26432, 3>>,
       <<0, 22528, 16649, 30188, 27152, 3>>,
       <<0, 27648, 17346, 20860, 27857, 3>>,
       <<0, 27136, 17133, 16866, 28547, 3>>,
       <<0, 11776, 18793, 5489, 29223, 3>>,
       <<0, 24064, 12398, 5565, 29885, 3>>,
       <<0, 32256, 17411, 2042, 30534, 3>>,
       <<0, 4608, 15013, 11605, 31170, 3>>,
       <<0, 22016, 2290, 17217, 31794, 3>>,
       <<0, 6144, 2124, 958, 32407, 3>>,
       <<0, 19456, 22519, 9627, 240, 4>>,
       <<0, 16384, 21346, 23730, 830, 4>>,
       <<0, 25600, 27858, 23066, 1410, 4>>,
       <<0, 13312, 12850, 19548, 1980, 4>>,
       <<0, 25600, 14667, 24476, 2540, 4>>,
       <<0, 11264, 10644, 15814, 3091, 4>>,
       <<0, 13312, 4960, 3761, 3633, 4>>,
       <<0, 11264, 16103, 30786, 4165, 4>>,
       <<0, 27648, 6336, 7822, 4690, 4>>,
       <<0, 19456, 23899, 9203, 5206, 4>>,
       <<0, 21504, 8523, 10553, 5714, 4>>,
       <<0, 6144, 20765, 19876, 6214, 4>>,
       <<0, 13312, 16521, 12050, 6707, 4>>,
       <<0, 25600, 24177, 27147, 7192, 4>>,
       <<0, 27648, 8405, 6617, 7671, 4>>,
       <<0, 1024, 14857, 22678, 8142, 4>>,
       <<0, 9216, 9910, 16194, 8607, 4>>,
       <<0, 31744, 8889, 26063, 9065, 4>>,
       <<0, 6144, 4479, 25394, 9517, 4>>,
       <<0, 29696, 25944, 19823, 9963, 4>>,
       <<0, 28672, 4154, 14762, 10403, 4>>,
       <<0, 18432, 1856, 15404, 10837, 4>>,
       <<0, 28672, 24977, 26740, 11265, 4>>,
       <<0, 9216, 6769, 20802, 11688, 4>>,
       <<0, 19456, 32139, 2202, 12106, 4>>,
       <<0, 4096, 17410, 8151, 12518, 4>>,
       <<0, 11264, 26648, 10154, 12925, 4>>,
       <<0, 5120, 13547, 12330, 13327, 4>>,
       <<0, 2048, 5924, 18646, 13724, 4>>,
       <<0, 20480, 13102, 159, 14117, 4>>,
       <<0, 10240, 17688, 26095, 14504, 4>>,
       <<0, 6144, 19946, 1710, 14888, 4>>,
       <<0, 18432, 4606, 28745, 15266, 4>>,
       <<0, 0, 27531, 12213, 15641, 4>>,
       <<0, 22528, 29783, 20858, 16011, 4>>,
       <<0, 16384, 2400, 25011, 16377, 4>>,
       <<0, 30720, 10981, 27666, 16739, 4>>,
       <<0, 20480, 15171, 31722, 17097, 4>>,
       <<0, 16384, 7859, 7215, 17452, 4>>,
       <<0, 25600, 15868, 22394, 17802, 4>>,
       <<0, 3072, 28135, 14351, 18149, 4>>,
       <<0, 24576, 15655, 18400, 18492, 4>>,
       <<0, 24576, 10847, 4238, 18832, 4>>,
       <<0, 10240, 17315, 7023, 19168, 4>>,
       <<0, 11264, 12521, 29073, 19500, 4>>,
       <<0, 22528, 10920, 7099, 19830, 4>>,
       <<0, 17408, 24017, 8817, 20156, 4>>,
       <<0, 29696, 15933, 3576, 20479, 4>>,
       <<0, 12288, 18591, 26197, 20798, 4>>,
       <<0, 2048, 13535, 13139, 21115, 4>>,
       <<0, 5120, 6613, 31875, 21428, 4>>,
       <<0, 19456, 812, 18751, 21739, 4>>,
       <<0, 27648, 31290, 8363, 22047, 4>>,
       <<0, 4096, 646, 2492, 22352, 4>>,
       <<0, 6144, 2728, 2864, 22654, 4>>,
       <<0, 17408, 21041, 11161, 22953, 4>>,
       <<0, 1024, 17701, 29020, 23249, 4>>,
       <<0, 13312, 19868, 25264, 23543, 4>>,
       <<0, 28672, 7194, 1443, 23835, 4>>,
       <<0, 23552, 26380, 24600, 24123, 4>>,
       <<0, 5120, 8682, 30670, 24409, 4>>,
       <<0, 11264, 11372, 21082, 24693, 4>>,
       <<0, 14336, 31293, 29998, 24974, 4>>,
       <<0, 23552, 13189, 26010, 25253, 4>>,
       <<0, 19456, 20146, 10440, 25530, 4>>,
       <<0, 9216, 9166, 17348, 25804, 4>>,
       <<0, 12288, 31162, 15223, 26076, 4>>,
       <<0, 11264, 3482, 5295, 26346, 4>>,
       <<0, 9216, 5303, 21527, 26613, 4>>,
       <<0, 9216, 14625, 32320, 26878, 4>>,
       <<0, 7168, 4431, 6047, 27142, 4>>,
       <<0, 25600, 4858, 9356, 27403, 4>>,
       <<0, 2048, 370, 10566, 27662, 4>>,
       <<0, 17408, 22421, 10737, 27919, 4>>,
       <<0, 11264, 11702, 10907, 28174, 4>>,
       <<0, 19456, 7045, 12087, 28427, 4>>,
       <<0, 2048, 5699, 15266, 28678, 4>>,
       <<0, 4096, 19287, 21410, 28927, 4>>,
       <<0, 12288, 30593, 31464, 29174, 4>>,
       <<0, 11264, 15043, 13584, 29420, 4>>,
       <<0, 21504, 26924, 1439, 29664, 4>>,
       <<0, 23552, 22699, 28681, 29905, 4>>,
       <<0, 29696, 11268, 30637, 30145, 4>>,
       <<0, 25600, 6927, 8151, 30384, 4>>,
       <<0, 18432, 14424, 27585, 30620, 4>>,
       <<0, 30720, 13378, 24212, 30855, 4>>,
       <<0, 30720, 7624, 31591, 31088, 4>>,
       <<0, 7168, 8432, 17728, 31320, 4>>,
       <<0, 14336, 17166, 16149, 31550, 4>>,
       <<0, 29696, 7411, 27597, 31778, 4>>,
       <<0, 28672, 4882, 20030, 32005, 4>>,
       <<0, 4096, 3001, 26928, 32230, 4>>,
       <<0, 14336, 9071, 16220, 32454, 4>>,
       <<0, 26624, 24466, 21357, 32676, 4>> >>

\* The lines the three scorers share: cost_score = 1000000 / cost,
\* rating_score = rating * 15, distance_score = max(0, 100 - distance * 1.5),
\* volume_score = min(math.log(volume + 1) * 10, 50). The logarithm of 149
\* and of anything above, times 10, is above 50.
CostScore(cost) == FloatDiv(1000000, cost)
RatingScore(rating) == FloatMul(rating, FloatOfInt(15))
DistanceScore(distance) ==
    IF FloatAbove(FloatMul(distance, FloatDiv(15, 10)), FloatOfInt(100)) THEN FLOAT_ZERO
    ELSE FloatSub(FloatOfInt(100), FloatMul(distance, FloatDiv(15, 10)))
VolumeScore(volume) ==
    IF volume >= 148 \/ FloatAbove(FloatMul(LogTable[volume + 1], FloatOfInt(10)), FloatOfInt(50))
    THEN FloatOfInt(50)
    ELSE FloatMul(LogTable[volume + 1], FloatOfInt(10))
\* cost_score * 0.4 + rating_score * 0.35 + distance_score * 0.15
\* + volume_score * 0.1, added from the left.
CompositeScore(cost_score, rating_score, distance_score, volume_score) ==
    FloatAdd(FloatAdd(FloatAdd(FloatMul(cost_score, FloatDiv(4, 10)),
                               FloatMul(rating_score, FloatDiv(35, 100))),
                      FloatMul(distance_score, FloatDiv(15, 100))),
             FloatMul(volume_score, FloatDiv(1, 10)))

\* Line 169: max(provider.average_covered_charges or 50000, 1000)
NormalCost(charges) == Max2(IF TruthyNum(charges) THEN charges ELSE 50000, 1000)
\* _calculate_composite_score on a response: the charges in dollars, the
\* rating in tenths (round(avg_rating, 1)), the distance in hundredths of a
\* kilometre (round(distance, 2)), each the nearest double to its decimal.
_calculate_composite_score(provider) ==
    CompositeScore(
        CostScore(NormalCost(provider.average_covered_charges)),
        RatingScore(IF TruthyNum(provider.average_rating)
                    THEN FloatDiv(provider.average_rating, 10) ELSE FloatOfInt(5)),
        DistanceScore(IF TruthyNum(provider.distance_km)
                      THEN FloatDiv(provider.distance_km, 100) ELSE FLOAT_ZERO),
        VolumeScore(IF TruthyNum(provider.total_discharges)
                    THEN provider.total_discharges ELSE 0))

(***************************************************************************)
(* AIService: the intent classifier and the scope check.                   *)
(***************************************************************************)
\* self.intent_patterns, in the order the dictionary is written and iterated.
intent_patterns ==
    << [intent |-> "cheapest",
        keywords |-> {"cheapest", "lowest cost", "most affordable", "least expensive", "budget"}],
       [intent |-> "best_rated",
        keywords |-> {"best rated", "highest rated", "top rated", "best quality", "highest quality"}],
       [intent |-> "nearest",
        keywords |-> {"nearest", "closest", "nearby", "close to", "near me"}],
       [intent |-> "comparison",
        keywords |-> {"compare", "versus", "vs", "difference between"}],
       [intent |-> "value",
        keywords |-> {"best value", "value for money", "cost effective", "bang for buck"}] >>

\* any(word in text for word in words)
AnyIn(text, words) == \E w \in words : str_contains(text, w)

\* The groups of intent_patterns with a keyword in the lower-cased question.
MatchingGroups(question_lower) ==
    {i \in 1..Len(intent_patterns) : AnyIn(question_lower, intent_patterns[i].keywords)}

SetMin(S) == CHOOSE m \in S : \A x \in S : m <= x

\* Default intents that end on a label of their own, "general".
SecondaryIntent_General(question_lower) ==
    IF AnyIn(question_lower, {"cost", "price", "cheap", "affordable"}) THEN "cheapest"
    ELSE IF AnyIn(question_lower, {"rating", "quality", "best"}) THEN "best_rated"
    ELSE IF AnyIn(question_lower, {"near", "close", "distance"}) THEN "nearest"
    ELSE "general"

\* The default intents the code falls back on, tried in this order.
SecondaryIntent(question_lower) ==
    IF AnyIn(question_lower, {"cost", "price", "cheap", "affordable"}) THEN "cheapest"
    ELSE IF AnyIn(question_lower, {"rating", "quality", "best"}) THEN "best_rated"
    ELSE IF AnyIn(question_lower, {"near", "close", "distance"}) THEN "nearest"
    ELSE "value"

\* A classifier in which the last matching group decides, not the first.
_detect_query_intent_LastMatch(q) ==
    LET question_lower == str_lower(q)
        groups == MatchingGroups(question_lower)
    IN  IF groups # {} THEN intent_patterns[CHOOSE m \in groups : \A x \in groups : m >= x].intent
        ELSE SecondaryIntent(question_lower)

_detect_query_intent(q) ==
    LET question_lower == str_lower(q)
        groups == MatchingGroups(question_lower)
    IN  IF groups # {} THEN intent_patterns[SetMin(groups)].intent
        ELSE SecondaryIntent(question_lower)

healthcare_keywords ==
    { "hospital", "provider", "doctor", "medical", "surgery", "procedure",
      "drg", "cost", "price", "cheap", "expensive", "rating", "quality",
      "treatment", "cardiac", "heart", "knee", "hip", "replacement",
      "emergency", "discharge", "medicare", "patient", "clinic", "health",
      "surgical", "operation", "diagnosis", "therapy", "care",
      "cancer", "oncology", "pneumonia", "stroke", "maternity", "pediatric" }

\* A scope check that lets every question through.
_is_healthcare_related_Always(q) == TRUE

_is_healthcare_related(q) == AnyIn(str_lower(q), healthcare_keywords)

(***************************************************************************)
(* AIService._generate_sql: cleaning and validation of the completion.     *)
(***************************************************************************)
\* The Markdown code fence: three backticks, each written "~".
FENCE == "~~~"

\* ^ under re.MULTILINE: the start of the text or just after a newline.
AtLineStart(s, i) == i = 1 \/ CharAt(s, i - 1) = "\n"
\* $ under re.MULTILINE: the end of the text or just before a newline.
AtLineEnd(s, i) == i > Len(s) \/ CharAt(s, i) = "\n"

\* The length of the run of whitespace that starts at position i.
RECURSIVE SpaceRun(_, _)
SpaceRun(s, i) == IF i <= Len(s) /\ IsSpace(CharAt(s, i)) THEN 1 + SpaceRun(s, i + 1) ELSE 0

\* A character of the text matches a letter of the pattern under
\* re.IGNORECASE: it is the letter in either case, or the long s for an s.
\* The patterns of the code hold the letters s, q and l.
MatchesIgnoreCase(c, letter) ==
    lowerChar(c) = letter \/ (letter = "s" /\ c = "\\u017f")
\* The position after the match of the pattern at position i of s under
\* re.IGNORECASE, 0 when it does not match there.
RECURSIVE MatchEnd(_, _, _)
MatchEnd(s, i, pattern) ==
    IF pattern = "" THEN i
    ELSE IF i > Len(s) \/ ~MatchesIgnoreCase(CharFrom(s, i), CharAt(pattern, 1)) THEN 0
    ELSE MatchEnd(s, i + Len(CharFrom(s, i)), From(pattern, 2))

\* re.sub('^' + opener + '\s*', '', s, flags=IGNORECASE | MULTILINE), from
\* position i on: every opener at a line start goes, with the whitespace
\* after it.
RECURSIVE SubFenceOpen(_, _, _)
SubFenceOpen(s, i, opener) ==
    IF i > Len(s) THEN ""
    ELSE IF AtLineStart(s, i) /\ MatchEnd(s, i, opener) # 0
         THEN SubFenceOpen(s, MatchEnd(s, i, opener) + SpaceRun(s, MatchEnd(s, i, opener)),
                           opener)
         ELSE CharAt(s, i) \o SubFenceOpen(s, i + 1, opener)

\* re.sub('\s*' + FENCE + '$', '', s, flags=MULTILINE), from position i on:
\* every fence at a line end goes, with the whitespace before it.
RECURSIVE SubFenceClose(_, _)
SubFenceClose(s, i) ==
    IF i > Len(s) THEN ""
    ELSE LET j == i + SpaceRun(s, i)
         IN  IF Slice(s, j, j + Len(FENCE) - 1) = FENCE /\ AtLineEnd(s, j + Len(FENCE))
             THEN SubFenceClose(s, j + Len(FENCE))
             ELSE CharAt(s, i) \o SubFenceClose(s, i + 1)

\* Lines 610 to 616: strip, drop the fences, strip.
clean_sql(content) ==
    str_strip(SubFenceClose(
        SubFenceOpen(SubFenceOpen(str_strip(content), 1, FENCE \o "sql"), 1, FENCE), 1))

dangerous_keywords == {"DROP", "DELETE", "UPDATE", "INSERT", "ALTER", "CREATE", "TRUNCATE"}

StartsWithSelect(sql_query) == str_startswith(str_upper(sql_query), "SELECT")
HasDangerousKeyword(sql_query) == AnyIn(str_upper(sql_query), dangerous_keywords)

\* Lines 618 to 630: the query, or None when it is refused.
validate_sql(sql_query) ==
    IF ~StartsWithSelect(sql_query) THEN None
    ELSE IF HasDangerousKeyword(sql_query) THEN None
    ELSE sql_query

\* What _generate_sql returns for an outcome of the completion call: Failed
\* when the call raised, the content of the message otherwise.
Failed == [raised |-> TRUE, content |-> ""]
Returned(content) == [raised |-> FALSE, content |-> content]
_generate_sql(outcome) ==
    IF outcome.raised THEN None ELSE validate_sql(clean_sql(outcome.content))

(***************************************************************************)
(* AIService: what the fallback search reads from the question.            *)
(***************************************************************************)
\* \w of the regular expressions: a letter, a digit or the underscore.
IsWordChar(c) ==
    c # "" /\ (\/ CharIn(c, UpperCase) \/ CharIn(c, LowerCase) \/ CharIn(c, DigitChars)
                \/ c = "_" \/ CharIn(c, OtherWordChars))
IsDigitAt(s, i) == i >= 1 /\ i <= Len(s) /\ CharIn(CharAt(s, i), DigitChars)
\* \b between positions i - 1 and i of s
WordBoundary(s, i) ==
    (i > 1 /\ i - 1 <= Len(s) /\ IsWordChar(CharAt(s, i - 1)))
        # (i <= Len(s) /\ IsWordChar(CharAt(s, i)))
\* \d{n} at position i
DigitsAt(s, i, n) == \A k \in i..(i + n - 1) : IsDigitAt(s, k)

\* Whether \b\d{5}(?:-\d{4})?\b matches at position i.
ZipAt(s, i) ==
    /\ WordBoundary(s, i)
    /\ DigitsAt(s, i, 5)
    /\ \/ (/\ i + 5 <= Len(s) /\ CharAt(s, i + 5) = "-"
           /\ DigitsAt(s, i + 6, 4) /\ WordBoundary(s, i + 10))
       \/ WordBoundary(s, i + 5)
ZipPositions(s) == {i \in 1..Len(s) : ZipAt(s, i)}

\* The cities of _extract_location_info, in the order they are tried.
cities ==
    << "new york", "nyc", "manhattan", "brooklyn", "bronx", "queens", "staten island",
       "albany", "buffalo", "syracuse", "rochester", "long island", "westchester",
       "yonkers", "schenectady", "troy", "utica", "binghamton", "niagara falls" >>

\* The length of the run of digits that starts at position i.
RECURSIVE DigitRun(_, _)
DigitRun(s, i) == IF IsDigitAt(s, i) THEN 1 + DigitRun(s, i + 1) ELSE 0
\* int(s) of a run of digits
RECURSIVE StrToInt(_)
StrToInt(s) ==
    IF s = "" THEN 0
    ELSE StrToInt(SubSeq(s, 1, Len(s) - 1)) * 10 + (IndexIn(CharAt(s, Len(s)), DigitChars) - 1)

\* distance_patterns of lines 459 to 464.  Each is a number, \s*, and a
\* unit; the third has "within" and \s+ before the number, the fourth \s+
\* and "radius" after the unit where the others have \b.  The units are the
\* alternatives in the order the pattern tries them.
distance_patterns ==
    << [within |-> FALSE, units |-> <<"miles", "mile", "mi">>, radius |-> FALSE],
       [within |-> FALSE, units |-> <<"km", "kilometers", "kilometer">>, radius |-> FALSE],
       [within |-> TRUE,
        units |-> <<"miles", "mile", "mi", "km", "kilometers", "kilometer">>,
        radius |-> FALSE],
       [within |-> FALSE, units |-> <<"mile", "kilometer">>, radius |-> TRUE] >>
\* What a pattern wants after its unit, which ends before position end and
\* has sp whitespace characters after it: whitespace, "radius" and \b, or \b.
TailMatches(s, end, sp, pattern) ==
    IF pattern.radius
    THEN /\ sp >= 1
         /\ Slice(s, end + sp, end + sp + 5) = "radius"
         /\ WordBoundary(s, end + sp + 6)
    ELSE WordBoundary(s, end)
UnitMatches(s, u, unit, pattern) ==
    /\ Slice(s, u, u + Len(unit) - 1) = unit
    /\ TailMatches(s, u + Len(unit), SpaceRun(s, u + Len(unit)), pattern)
\* The alternatives of the unit that match at position u.
UnitsAt(s, u, pattern) ==
    {k \in 1..Len(pattern.units) : UnitMatches(s, u, pattern.units[k], pattern)}
\* Groups 1 and 2 of a match: the digits and the first alternative of the
\* unit that matches; NoMatch when there is no digit or no unit.
NoMatch == [distance |-> "", unit |-> ""]
GroupsOf(s, d, n, units, pattern) ==
    IF n >= 1 /\ units # {}
    THEN [distance |-> SubSeq(s, d, d + n - 1), unit |-> pattern.units[SetMin(units)]]
    ELSE NoMatch
\* (\d+)\s*(unit) from position d on, where n digits stand: \d+ and \s*
\* take all the digits and all the whitespace there is, since no unit starts
\* with either.
NumberMatch(s, d, n, pattern) ==
    GroupsOf(s, d, n, UnitsAt(s, d + n + SpaceRun(s, d + n), pattern), pattern)
\* Where the number of a match that starts at position i starts: at i, or
\* after "within" and its whitespace; 0 when "within" is wanted and missing.
NumberStart(s, i, pattern) ==
    IF ~pattern.within THEN i
    ELSE IF Slice(s, i, i + 5) = "within" /\ SpaceRun(s, i + 6) >= 1
    THEN i + 6 + SpaceRun(s, i + 6)
    ELSE 0
NumberAt(s, d, pattern) ==
    IF d = 0 THEN NoMatch ELSE NumberMatch(s, d, DigitRun(s, d), pattern)
\* The match of a pattern that starts at position i.
DistanceMatch(s, i, pattern) == NumberAt(s, NumberStart(s, i, pattern), pattern)
OrElse(m, other) == IF m # NoMatch THEN m ELSE other
\* re.search of one pattern: its leftmost match, given the positions at
\* which it matches.
MatchAtFirst(s, at, pattern) ==
    IF at = {} THEN NoMatch ELSE DistanceMatch(s, SetMin(at), pattern)
FirstMatch(s, pattern) ==
    MatchAtFirst(s, {i \in 1..Len(s) : DistanceMatch(s, i, pattern) # NoMatch}, pattern)
\* The loop of lines 466 to 475: the match of the first pattern that has one.
RECURSIVE SearchPatterns(_, _)
SearchPatterns(s, p) ==
    IF p > Len(distance_patterns) THEN NoMatch
    ELSE OrElse(FirstMatch(s, distance_patterns[p]), SearchPatterns(s, p + 1))
\* Lines 469 to 474: miles become int(distance * 1.60934) kilometres (the
\* same as the whole division below for every number under 13343).
KilometresOf(distance, unit) ==
    IF str_contains(unit, "mile") \/ str_contains(unit, "mi")
    THEN (distance * 160934) \div 100000
    ELSE distance
RadiusOfMatch(m) ==
    IF m = NoMatch THEN NoNumber ELSE KilometresOf(StrToInt(m.distance), m.unit)
\* The radius the text gives, NoNumber when no pattern matches.
ExtractRadiusKm(s) == RadiusOfMatch(SearchPatterns(s, 1))

\* _extract_location_info: the five digits of the first ZIP code, the first
\* city of the list the question holds and the radius it gives, None (for
\* the radius NoNumber) for what it does not hold.
_extract_location_info(q) ==
    LET zips == ZipPositions(q)
        found == {i \in 1..Len(cities) : str_contains(str_lower(q), cities[i])}
    IN  [ zip_code |-> IF zips = {} THEN None ELSE SubSeq(q, SetMin(zips), SetMin(zips) + 4),
          city |-> IF found = {} THEN None ELSE cities[SetMin(found)],
          radius_km |-> ExtractRadiusKm(str_lower(q)) ]

drg_mappings ==
    [ knee |-> {"470", "469", "468", "489", "488"},
      hip |-> {"470", "469", "468"},
      joint_replacement |-> {"470", "469", "468"},
      heart |-> {"246", "247", "248", "249", "250", "251", "252", "280", "281", "282"},
      cardiac |-> {"246", "247", "248", "249", "250", "251", "252", "280", "281", "282"},
      cardiovascular |-> {"246", "247", "248", "249", "250", "251", "252"},
      bypass |-> {"231", "232", "233", "234", "235", "236"},
      kidney |-> {"682", "683", "684", "685", "686", "687"},
      dialysis |-> {"682", "683", "684", "685"},
      emergency |-> {"981", "982", "983", "984"},
      surgery |-> {"470", "480", "481", "482"},
      cancer |-> {"834", "835", "836", "837", "838"},
      pneumonia |-> {"177", "178", "179", "193", "194", "195"},
      stroke |-> {"061", "062", "063", "064", "065", "066"},
      maternity |-> {"765", "766", "767", "768", "774", "775"} ]
medical_terms ==
    [ arthroplasty |-> {"470", "469", "468"},
      angioplasty |-> {"246", "247", "248"},
      appendectomy |-> {"338", "339", "340"},
      cholecystectomy |-> {"417", "418", "419"},
      hernia |-> {"353", "354", "355"} ]
\* The keyword a field of drg_mappings stands for.
MappingKeyword(k) == IF k = "joint_replacement" THEN "joint replacement" ELSE k

\* re.findall(r'drg\s*(\d+)', s): the codes written after "drg".
DrgCodeMatches(s) ==
    { SubSeq(s, i + 3 + SpaceRun(s, i + 3),
             i + 2 + SpaceRun(s, i + 3) + DigitRun(s, i + 3 + SpaceRun(s, i + 3))) :
        i \in { k \in 1..Len(s) : /\ Slice(s, k, k + 2) = "drg"
                                  /\ DigitRun(s, k + 3 + SpaceRun(s, k + 3)) > 0 } }

\* _extract_procedure_info: the set of the procedure codes found.
_extract_procedure_info(q) ==
    LET question_lower == str_lower(q)
    IN  DrgCodeMatches(question_lower)
        \cup UNION { drg_mappings[k] : k \in {m \in DOMAIN drg_mappings :
                         str_contains(question_lower, MappingKeyword(m))} }
        \cup UNION { medical_terms[k] : k \in {m \in DOMAIN medical_terms :
                         str_contains(question_lower, m)} }

(***************************************************************************)
(* Text of numbers, as the canned answers print them.                      *)
(***************************************************************************)
RECURSIVE IntToStr(_)
IntToStr(n) ==
    IF n < 10 THEN CharAt(DigitChars, n + 1)
    ELSE IntToStr(n \div 10) \o CharAt(DigitChars, (n % 10) + 1)
\* three digits, zero-padded
Pad3(n) == IF n < 10 THEN "00" \o IntToStr(n) ELSE IF n < 100 THEN "0" \o IntToStr(n) ELSE IntToStr(n)
RECURSIVE Grouped(_)
Grouped(n) == IF n < 1000 THEN IntToStr(n) ELSE Grouped(n \div 1000) \o "," \o Pad3(n % 1000)
\* f"{value:,.2f}" for a whole number of dollars
FormatMoney(dollars) == Grouped(dollars) \o ".00"
\* str(x) of a rating held in tenths: 85 is "8.5"
RatingText(tenths) == IntToStr(tenths \div 10) \o "." \o IntToStr(tenths % 10)

(***************************************************************************)
(* AIService: rows, ranking and answers of the natural-language flow.      *)
(***************************************************************************)
\* A cell of a result row as the driver returns it, and the value the loops
\* of lines 118 to 127 and 289 to 299 keep for it: an int, float or str as
\* it is, None as None, anything else (a Decimal) as its text.
Cell(type, value) == [type |-> type, value |-> value]
ConvertCell(c) ==
    IF c.type \in {"int", "float", "str"} THEN c
    ELSE IF c.type = "NULL" THEN Cell("None", 0)
    ELSE Cell("str", c.value)

\* A result row: the hospital, its charges, the average of its ratings in
\* tenths (NoNumber for NULL) and its discharges.
ResultRow(name, charges, rating, discharges) ==
    [ provider_name |-> name, average_covered_charges |-> charges,
      avg_rating |-> rating, total_discharges |-> discharges ]
ConvertRow(r) ==
    [r EXCEPT !.average_covered_charges = ConvertCell(r.average_covered_charges)]
RECURSIVE ConvertRows(_)
ConvertRows(rows) ==
    IF rows = << >> THEN << >> ELSE <<ConvertRow(Head(rows))>> \o ConvertRows(Tail(rows))

\* calculate_score of _apply_composite_ranking: float(None) raises, for the
\* charges or for the rating, and the score is then 0.0; a row has no
\* distance_km, so the distance counts as 50.
calculate_score(item) ==
    IF item.average_covered_charges.type = "None" \/ item.avg_rating = NoNumber
    THEN FLOAT_ZERO
    ELSE CompositeScore(CostScore(Max2(item.average_covered_charges.value, 1000)),
                        RatingScore(FloatDiv(item.avg_rating, 10)),
                        DistanceScore(FloatOfInt(50)),
                        VolumeScore(item.total_discharges))

\* sorted(data, key=calculate_score, reverse=True): the key of each row is
\* computed once; descending by key, rows of equal key in the order they
\* came.
RECURSIVE InsertByValue(_, _)
InsertByValue(sorted, keyed) ==
    IF sorted = << >> THEN <<keyed>>
    ELSE IF FloatAbove(keyed[1], Head(sorted)[1]) THEN <<keyed>> \o sorted
    ELSE <<Head(sorted)>> \o InsertByValue(Tail(sorted), keyed)
RECURSIVE SortKeyedRows(_, _)
SortKeyedRows(data, n) ==
    IF n = 0 THEN << >>
    ELSE InsertByValue(SortKeyedRows(data, n - 1), <<calculate_score(data[n]), data[n]>>)
Unkeyed(sorted) == [k \in 1..Len(sorted) |-> sorted[k][2]]
_apply_composite_ranking(data) == Unkeyed(SortKeyedRows(data, Len(data)))

\* A re-ranking applied whatever the intent.
RankForIntent_Always(data, detected) == _apply_composite_ranking(data)

\* Lines 130 to 132 and 302 to 304: the rows are re-ranked for intent value.
RankForIntent(data, detected) ==
    IF detected = "value" THEN _apply_composite_ranking(data) ELSE data

\* An optional list: None, or a list of rows.
NoneList == [is_none |-> TRUE, rows |-> << >>]
SomeList(rows) == [is_none |-> FALSE, rows |-> rows]

\* The canned answers of process_question.
REFUSAL_ANSWER ==
    "I can only help with hospital pricing and quality information. Please ask about medical procedures, costs, or hospital ratings. For example: 'What are the cheapest hospitals for knee replacement?' or 'Which hospitals have the best ratings for cardiac surgery?'"
NOT_UNDERSTOOD_ANSWER ==
    "I couldn't understand your question. Please try asking about specific procedures, costs, or hospital ratings. For example: 'What are the cheapest hospitals for knee replacement?' or 'Which hospitals have the best ratings for cardiac surgery?'"
DB_ERROR_ANSWER ==
    "I encountered an error with the database query. Please try rephrasing your question or ask about specific procedures like knee replacement or heart surgery."
ERROR_ANSWER ==
    "I encountered an error processing your question. Please try asking about specific hospitals, procedures, or costs. For example: 'Find cheap hospitals for knee surgery in NYC'"

\* _generate_helpful_no_results_message
_generate_helpful_no_results_message(q) ==
    LET location_info == _extract_location_info(q)
        procedure_text ==
            IF str_contains(str_lower(q), "knee") \/ str_contains(q, "470")
            THEN "knee replacement procedures"
            ELSE IF str_contains(str_lower(q), "heart") \/ str_contains(str_lower(q), "cardiac")
            THEN "cardiac procedures"
            ELSE IF str_contains(str_lower(q), "hip") THEN "hip replacement procedures"
            ELSE "the requested procedures"
        location_text ==
            IF location_info.zip_code # None THEN "ZIP code " \o location_info.zip_code
            ELSE IF location_info.city # None THEN "the " \o location_info.city \o " area"
            ELSE "that specific location"
    IN  "I couldn't find any " \o procedure_text \o " specifically in " \o location_text
        \o ". This might be because hospitals aren't located in that exact area, or the specific procedure isn't available there."
        \o " You could try: Try searching for '" \o procedure_text
        \o " in NYC area' for broader results; Consider expanding your search radius to 100km"

\* A canned replacement whose formatting raises on every row.
FormatRaises_Always(item) == TRUE

\* f"{value:,.2f}" raises on a str and on None.
FormatRaises(item) == item.average_covered_charges.type \notin {"int", "float"}
\* {data[0].get('avg_rating', 'N/A')}
RatingShown(item) == IF item.avg_rating = NoNumber THEN "None" ELSE RatingText(item.avg_rating)

\* Line 710: the answer _generate_answer falls back on.
CannedAnswer(data, detected) ==
    "I found " \o IntToStr(Len(data)) \o " results for your " \o detected
    \o " query. The top option is " \o data[1].provider_name
    \o " with charges of $" \o FormatMoney(data[1].average_covered_charges.value)
    \o " and a rating of " \o RatingShown(data[1]) \o "/10."

\* Lines 382 to 387
intent_context(detected) ==
    IF detected = "cheapest" THEN "most affordable options"
    ELSE IF detected = "best_rated" THEN "highest-rated providers"
    ELSE IF detected = "nearest" THEN "closest options"
    ELSE IF detected = "value" THEN "best value options (balancing cost and quality)"
    ELSE "best options"

\* Line 421: the answer _generate_broader_search_answer falls back on.
CannedBroaderAnswer(data, detected) ==
    "I couldn't find matches in your exact location, but found " \o IntToStr(Len(data))
    \o " " \o intent_context(detected) \o " in the broader area. The top choice is "
    \o data[1].provider_name \o " at $"
    \o FormatMoney(data[1].average_covered_charges.value) \o "."

(***************************************************************************)
(* AIService: the fallback queries.                                        *)
(***************************************************************************)
\* Lines 209 to 220: the ORDER BY clause of the fallback queries.
base_order(detected) ==
    IF detected = "cheapest" THEN "ORDER BY p.average_covered_charges ASC"
    ELSE IF detected = "best_rated" THEN "ORDER BY AVG(r.rating) DESC"
    ELSE IF detected = "nearest" THEN "ORDER BY p.provider_zip_code ASC"
    ELSE "ORDER BY ((1000000 / GREATEST(p.average_covered_charges, 1000)) * 0.4 + COALESCE(AVG(r.rating), 5.0) * 15 * 0.35 + COALESCE(p.total_discharges, 0) * 0.01) DESC"

\* Lines 261 to 267: the condition of a city, None for a city without one.
city_patterns ==
    [ manhattan |-> "p.provider_city ILIKE '%new york%' OR p.provider_city ILIKE '%manhattan%'",
      nyc |-> "p.provider_city ILIKE '%new york%'",
      new_york |-> "p.provider_city ILIKE '%new york%'",
      brooklyn |-> "p.provider_city ILIKE '%brooklyn%'",
      bronx |-> "p.provider_city ILIKE '%bronx%'" ]
CityCondition(city) ==
    IF city = "new york" THEN city_patterns.new_york
    ELSE IF city \in DOMAIN city_patterns THEN city_patterns[city]
    ELSE None

\* A fallback query, written as its WHERE, ORDER BY and LIMIT clauses on one
\* line; the SELECT list, FROM and GROUP BY are the same in all of them.
FallbackQuery(where, detected) ==
    "WHERE " \o where \o " " \o base_order(detected) \o " LIMIT 5"
\* A ZIP query that carries the whole ZIP code read from the question.
ZipFallback_WholeZip(zip, detected) ==
    FallbackQuery("(p.ms_drg_definition ILIKE '%knee%' OR p.ms_drg_definition ILIKE '%joint%') AND p.provider_zip_code LIKE '"
                  \o zip \o "%'", detected)
ZipFallback(zip, detected) ==
    FallbackQuery("(p.ms_drg_definition ILIKE '%knee%' OR p.ms_drg_definition ILIKE '%joint%') AND p.provider_zip_code LIKE '"
                  \o Slice(zip, 1, 3) \o "%'", detected)
ProcedureFallback(detected) ==
    FallbackQuery("p.ms_drg_definition ILIKE '%orthopedic%' OR p.ms_drg_definition ILIKE '%replacement%' OR p.ms_drg_definition ILIKE '%surgery%'",
                  detected)
CityFallback(city, detected) == FallbackQuery("(" \o CityCondition(city) \o ")", detected)

\* The fallback queries with the city query before the procedure query.
BuildFallbackQueries_CityFirst(q, detected) ==
    LET location_info == _extract_location_info(q)
        procedure_info == _extract_procedure_info(q)
    IN  (IF location_info.zip_code # None /\ Len(location_info.zip_code) >= 3
         THEN <<ZipFallback(location_info.zip_code, detected)>> ELSE << >>)
        \o (IF location_info.city # None /\ CityCondition(location_info.city) # None
            THEN <<CityFallback(location_info.city, detected)>> ELSE << >>)
        \o (IF procedure_info # {} THEN <<ProcedureFallback(detected)>> ELSE << >>)

\* Lines 222 to 282: the fallback queries of a question, in the order they
\* are appended.
BuildFallbackQueries(q, detected) ==
    LET location_info == _extract_location_info(q)
        procedure_info == _extract_procedure_info(q)
    IN  (IF location_info.zip_code # None /\ Len(location_info.zip_code) >= 3
         THEN <<ZipFallback(location_info.zip_code, detected)>> ELSE << >>)
        \o (IF procedure_info # {} THEN <<ProcedureFallback(detected)>> ELSE << >>)
        \o (IF location_info.city # None /\ CityCondition(location_info.city) # None
            THEN <<CityFallback(location_info.city, detected)>> ELSE << >>)

(***************************************************************************)
(* The inputs of the model.                                                *)
(***************************************************************************)
\* Every phrase of one to n words of the vocabulary, separated by a space.
RECURSIVE Phrases(_, _)
Phrases(words, n) ==
    IF n <= 1 THEN (IF n = 1 THEN words ELSE {})
    ELSE Phrases(words, n - 1)
         \cup {p \o " " \o w : p \in Phrases(words, n - 1), w \in words}

DrgWords == {"470", "47", "knee", "Heart", "hip", "of", "a", "replacement"}
DrgQueries ==
    Phrases(DrgWords, MaxDrgWords) \cup {"", " ", " 470", "470 ", "xray\tof", "²", "hip\rknee"}

\* The procedure descriptions held by the data store.
DrgDefinitions ==
    { "470 - Major Joint Replacement", "4700 - Something Else",
      "470-MAJOR HIP AND KNEE", "291 - HEART FAILURE AND SHOCK",
      "247 - Percutaneous Cardiovascular Procedure" }

QuestionWords ==
    { "cheapest", "Best Rated", "nearest", "compare", "best value", "cost",
      "quality", "near", "knee", "weather", "BUDGET", "hospital" }
Questions == Phrases(QuestionWords, MaxQuestionWords) \cup {""}

(***************************************************************************)
(* State.                                                                  *)
(***************************************************************************)
VARIABLES
    pc,                  \* the step the modelled call has reached
    drg,                 \* the procedure query
    drg_conditions,      \* the conditions _build_drg_conditions returned
    matched,             \* the descriptions the filtered fetch returned
    question,            \* the question asked
    intent,              \* the intent detected
    store,               \* the provider records of the data store, in fetch order
    zip_code,            \* the ZIP code searched from
    radius_km,           \* the search radius
    limit,               \* the result cap
    search_center,       \* the coordinates the Geo-Resolver returned
    db_failed,           \* the data store accesses of the search that raised
    filtered_providers,  \* the responses that passed the radius filter, as the list stands
    results,             \* what search_providers returned
    llm_calls,           \* the completion calls made, in order
    llm_replies,         \* what the completion service answered, in order
    db_log,              \* the queries sent to the data store, in order
    db_replies,          \* how the data store answered them, in order
    sql_query,           \* the generated query, once accepted
    fetched_rows,        \* the rows of the last fetch, as the data store returned them
    data_used,           \* the rows of the answer being built
    fallback_queries,    \* the fallback queries not yet given up, the first in flight
    response,            \* the response returned to the caller
    call_input,          \* the arguments of the function called on its own
    call_output          \* what it returned, call by call

drgVars == <<drg, drg_conditions, matched>>
flowVars ==
    <<llm_calls, llm_replies, db_log, db_replies, sql_query, fetched_rows, data_used,
      fallback_queries, response>>
askVars == <<question, intent, flowVars>>
searchVars ==
    <<store, zip_code, radius_km, limit, search_center, db_failed,
      filtered_providers, results>>
callVars == <<call_input, call_output>>
vars == <<pc, drgVars, askVars, searchVars, callVars>>

DrgIdle == drg = None /\ drg_conditions = None /\ matched = None
FlowIdle ==
    /\ llm_calls = None /\ llm_replies = None /\ db_log = None /\ db_replies = None
    /\ sql_query = None /\ fetched_rows = None /\ data_used = None /\ fallback_queries = None /\ response = None
AskIdle == question = None /\ intent = None /\ FlowIdle
SearchIdle ==
    /\ store = None /\ zip_code = None /\ radius_km = None /\ limit = None
    /\ search_center = None /\ db_failed = None
    /\ filtered_providers = None /\ results = None
CallIdle == call_input = None /\ call_output = None

(***************************************************************************)
(* The procedure matcher on its own: build the conditions of a query and   *)
(* send the fetch that carries them, then receive the descriptions it      *)
(* returns (search_providers, lines 81 to 87).                             *)
(***************************************************************************)
DrgInit ==
    /\ pc = "drg_start"
    /\ drg \in DrgQueries
    /\ drg_conditions = None
    /\ matched = None
    /\ AskIdle
    /\ SearchIdle
    /\ CallIdle

\* Lines 81 to 86: the conditions are built and the fetch that carries them
\* is sent; the call waits for the data store at line 86.
BuildDrgConditions ==
    /\ pc = "drg_start"
    /\ drg_conditions' = _build_drg_conditions(drg)
    /\ pc' = "drg_fetch_sent"
    /\ UNCHANGED <<drg, matched, askVars, searchVars, callVars>>

\* Lines 86 and 87: the data store answers with the descriptions that
\* satisfy the conditions.
FetchMatching ==
    /\ pc = "drg_fetch_sent"
    /\ \A d \in DrgDefinitions : ~FilterRaises(d, drg_conditions)
    /\ matched' = {d \in DrgDefinitions : DrgFilter(d, drg_conditions)}
    /\ pc' = "drg_fetched"
    /\ UNCHANGED <<drg, drg_conditions, askVars, searchVars, callVars>>

DrgNext == BuildDrgConditions \/ FetchMatching

SpecDrg == DrgInit /\ [][DrgNext]_vars

(***************************************************************************)
(* The intent classifier on its own.                                       *)
(***************************************************************************)
IntentInit ==
    /\ pc = "intent_start"
    /\ question \in Questions
    /\ intent = None
    /\ FlowIdle
    /\ DrgIdle
    /\ SearchIdle
    /\ CallIdle

DetectIntent ==
    /\ pc = "intent_start"
    /\ intent' = _detect_query_intent(question)
    /\ pc' = "intent_done"
    /\ UNCHANGED <<question, flowVars, drgVars, searchVars, callVars>>

IntentNext == DetectIntent

SpecIntent == IntentInit /\ [][IntentNext]_vars

(***************************************************************************)
(* The provider search (search_providers).                                 *)
(***************************************************************************)
\* A provider record as the fetch of lines 74 to 78 returns it: the record
\* and the average of its ratings (in hundredths, NoNumber without ratings).
Provider(id, zip, definition, discharges, charges, avg, lat, lng) ==
    [ provider_id |-> id, provider_zip_code |-> zip,
      ms_drg_definition |-> definition, total_discharges |-> discharges,
      average_covered_charges |-> charges, avg_rating |-> avg,
      latitude |-> lat, longitude |-> lng ]

\* The records a store of the model is drawn from.  From the centre of ZIP
\* code 10001, 330103 lies at exactly 50 km, 330104 at 50.004 km; 330105
\* lies on the equator and 330106 has no coordinates.
ProviderPool ==
    { Provider("330101", "10032", "470 - Major Joint Replacement", 100, 50000, 800,
               "40.8386", "-73.9426"),
      Provider("330103", "10099", "470 - Major Joint Replacement", 100, 30000, 912,
               "41.19982596636056", "-73.97041982671311"),
      Provider("330104", "10940", "4700 - Something Else", 10, 1000, 1000,
               "41.200197", "-73.9934"),
      Provider("330105", "99999", "470 - Major Joint Replacement", 10, 500, 700,
               "0.0", "-73.9934"),
      Provider("330106", "10099", "291 - HEART FAILURE AND SHOCK", 0, 20000, 433,
               None, None),
      Provider("330107", "10001", "470-MAJOR HIP AND KNEE", 245, 0, NoNumber,
               "40.7505", "-73.9934") }

\* The sequences of at most n distinct elements of S.
RECURSIVE Arrangements(_, _)
Arrangements(S, n) ==
    IF n = 0 THEN {<< >>}
    ELSE LET shorter == Arrangements(S, n - 1)
         IN  shorter \cup
             {Append(t, x) : <<t, x>> \in
                 {y \in shorter \X S : \A i \in 1..Len(y[1]) : y[1][i] # y[2]}}

Stores == Arrangements(ProviderPool, MaxStore)
SearchDrgs == {"470", "a"}
ZipInputs == {"10001", "10099", "99999", "10001-1234"}
\* The stores a search runs on: a search from a ZIP code outside the table,
\* whose centre may be any of the centroids of its region, runs on the stores
\* of at most MaxHashedStore records.
SearchStores(zip) ==
    IF zip \in DOMAIN ZIP_COORDINATES THEN Stores
    ELSE Arrangements(ProviderPool, MaxHashedStore)
Radii == {0, 50, 5000}
\* hash(zip_code): a 64-bit integer that differs from one process to the
\* next. Lines 221 to 233 read it modulo 100 or modulo 200 only, so a process
\* is told by the residue of the hash modulo 200, and every residue occurs.
HashValues == 0..199

\* The response built at lines 101 to 114 for a record within the radius.
ProviderResponse(p, center) ==
    [ provider_id |-> p.provider_id,
      provider_zip_code |-> p.provider_zip_code,
      ms_drg_definition |-> p.ms_drg_definition,
      total_discharges |-> IF TruthyNum(p.total_discharges) THEN p.total_discharges ELSE 0,
      average_covered_charges |->
          IF TruthyNum(p.average_covered_charges) THEN p.average_covered_charges ELSE 0,
      average_rating |-> IF TruthyNum(p.avg_rating) THEN RoundRating(p.avg_rating) ELSE NoNumber,
      distance_km |-> RoundedDistance(center[1], center[2], p.latitude, p.longitude) ]

\* Lines 80 to 87: the records the fetch returns, in the order of the store.
FetchProviders(providers, conditions) ==
    SelectSeq(providers, LAMBDA p : DrgFilter(p.ms_drg_definition, conditions))

\* Line 93 and line 100: what lets a fetched record into the results.
PassesRadiusFilter(p, center, radius) ==
    /\ Truthy(p.latitude) /\ Truthy(p.longitude)
    /\ WithinRadius(_calculate_distance(center[1], center[2], p.latitude, p.longitude),
                    radius)

\* Lines 91 to 115: the responses of the fetched records that pass the filter.
RECURSIVE FilterByRadius(_, _, _)
FilterByRadius(providers, center, radius) ==
    IF providers = << >> THEN << >>
    ELSE LET rest == FilterByRadius(Tail(providers), center, radius)
         IN  IF PassesRadiusFilter(Head(providers), center, radius)
             THEN <<ProviderResponse(Head(providers), center)>> \o rest
             ELSE rest

\* list.sort(key=self._calculate_composite_score, reverse=True): the key
\* of each response is computed once; descending by key, equal keys keeping
\* their order.
RECURSIVE InsertByScore(_, _)
InsertByScore(sorted, keyed) ==
    IF sorted = << >> THEN <<keyed>>
    ELSE IF FloatAbove(keyed[1], Head(sorted)[1]) THEN <<keyed>> \o sorted
    ELSE <<Head(sorted)>> \o InsertByScore(Tail(sorted), keyed)
RECURSIVE SortKeyedResponses(_, _)
SortKeyedResponses(responses, n) ==
    IF n = 0 THEN << >>
    ELSE InsertByScore(SortKeyedResponses(responses, n - 1),
                       <<_calculate_composite_score(responses[n]), responses[n]>>)
\* A ranking that leaves the responses in the order of the fetch.
SortByScore_Unsorted(responses) == responses

SortByScore(responses) == Unkeyed(SortKeyedResponses(responses, Len(responses)))

\* seq[:n]
Take(seq, n) == SubSeq(seq, 1, Min2(n, Len(seq)))

SearchInit ==
    /\ pc = "search_start"
    /\ drg \in SearchDrgs
    /\ zip_code \in ZipInputs
    /\ radius_km \in Radii
    /\ limit \in 1..MaxLimit
    /\ store \in SearchStores(zip_code)
    /\ drg_conditions = None
    /\ search_center = None
    /\ db_failed = {}
    /\ filtered_providers = None
    /\ results = None
    /\ matched = None
    /\ AskIdle
    /\ CallIdle

\* Lines 62 to 86 for a ZIP code of the table: line 203 returns its centre
\* and the data store is not consulted; the conditions are built and the
\* fetch is sent. The search waits for the data store at line 86.
ResolveFromTable ==
    /\ pc = "search_start"
    /\ zip_code \in DOMAIN ZIP_COORDINATES
    /\ search_center' = SearchCenter(_get_zip_coordinates(zip_code, LookupEmpty, 0))
    /\ drg_conditions' = _build_drg_conditions(drg)
    /\ pc' = "search_fetch_sent"
    /\ UNCHANGED <<drg, matched, askVars, callVars, store, zip_code, radius_km, limit,
                   db_failed, filtered_providers, results>>

\* Lines 62 to 66 and 198 to 211 for any other ZIP code: the lookup is sent.
\* The search waits for the data store at line 211.
SendLookup ==
    /\ pc = "search_start"
    /\ zip_code \notin DOMAIN ZIP_COORDINATES
    /\ pc' = "search_lookup_sent"
    /\ UNCHANGED <<drgVars, askVars, callVars, searchVars>>

\* The outcomes of the lookup of lines 207 to 212: one of the records with
\* that ZIP code, whichever the store returns first, or none.
LookupOutcomes(providers, zip) ==
    LET rows == {i \in 1..Len(providers) : providers[i].provider_zip_code = zip}
    IN  IF rows = {} THEN {LookupEmpty} ELSE {LookupRow(providers[i]) : i \in rows}

\* Lines 211 to 233, then 66 to 86: the lookup returns; the centre is the
\* stored coordinate or the regional approximation, the conditions are
\* built and the fetch is sent. The search waits at line 86.
ResolveFromStore ==
    /\ pc = "search_lookup_sent"
    /\ \E lookup \in LookupOutcomes(store, zip_code), h \in HashValues :
           search_center' = SearchCenter(_get_zip_coordinates(zip_code, lookup, h))
    /\ drg_conditions' = _build_drg_conditions(drg)
    /\ pc' = "search_fetch_sent"
    /\ UNCHANGED <<drg, matched, askVars, callVars, store, zip_code, radius_km, limit,
                   db_failed, filtered_providers, results>>

\* Lines 211 and 217 to 233, then 66 to 86: the lookup raises at line 211;
\* the error is logged, the regional approximation is the centre, the
\* conditions are built and the fetch is sent. The search waits at line 86.
ResolveLookupFails ==
    /\ pc = "search_lookup_sent"
    /\ \E h \in HashValues :
           search_center' = SearchCenter(_get_zip_coordinates(zip_code, LookupRaised, h))
    /\ drg_conditions' = _build_drg_conditions(drg)
    /\ db_failed' = db_failed \cup {"zip_lookup"}
    /\ pc' = "search_fetch_sent"
    /\ UNCHANGED <<drg, matched, askVars, callVars, store, zip_code, radius_km, limit,
                   filtered_providers, results>>

\* Lines 86 to 122: the fetch returns; filter, rank, truncate.  Line 120
\* sorts filtered_providers in place, so the list is left in ranked order and
\* line 122 returns its first limit entries.
FetchAndRank ==
    /\ pc = "search_fetch_sent"
    /\ \A k \in 1..Len(store) : ~FilterRaises(store[k].ms_drg_definition, drg_conditions)
    /\ filtered_providers' =
           SortByScore(FilterByRadius(FetchProviders(store, drg_conditions),
                                      search_center, radius_km))
    /\ results' = Take(filtered_providers', limit)
    /\ pc' = "search_done"
    /\ UNCHANGED <<drgVars, askVars, callVars, store, zip_code, radius_km, limit,
                   search_center, db_failed>>

\* A fetch failure that reaches the caller: no list is returned.
FetchFails_Propagates ==
    /\ pc = "search_fetch_sent"
    /\ db_failed' = db_failed \cup {"provider_fetch"}
    /\ pc' = "search_raised"
    /\ UNCHANGED <<drgVars, askVars, callVars, store, zip_code, radius_km, limit,
                   search_center, filtered_providers, results>>

\* Lines 86 and 124 to 126: the fetch raises at line 86; the error is logged
\* and the empty list returned.
FetchFails ==
    /\ pc = "search_fetch_sent"
    /\ db_failed' = db_failed \cup {"provider_fetch"}
    /\ results' = << >>
    /\ pc' = "search_done"
    /\ UNCHANGED <<drgVars, askVars, callVars, store, zip_code, radius_km, limit,
                   search_center, filtered_providers>>

SearchNext ==
    \/ ResolveFromTable
    \/ SendLookup
    \/ ResolveFromStore
    \/ ResolveLookupFails
    \/ FetchAndRank
    \/ FetchFails

SpecSearch == SearchInit /\ [][SearchNext]_vars

(***************************************************************************)
(* The natural-language flow (process_question), one action for each       *)
(* stretch of code between two awaited calls.                              *)
(***************************************************************************)
AskQuestions ==
    { "What's the weather today?",
      "Is the library open?",
      "Find cheapest hospital for knee replacement",
      "Who is the cheapest for DRG 470 within 25 miles of 10001?",
      "What are the best rated hospitals for heart surgery in New York?",
      "Show me the best value hospitals near Manhattan",
      "Compare costs between hospitals for hip surgery in NYC",
      "What's the closest hospital for emergency care near 10032?",
      "Which clinic in Albany is good?",
      "Cheapest knee hospital near 10001' OR '1'='1" }

\* What the completion service may return for the query: any text.  The texts
\* of the model are a query, read-only or not, bare or in a Markdown fence.
CompletionBodies ==
    { "SELECT provider_name FROM providers",
      "select * from ratings",
      "Select 1; drop table providers",
      "DELETE FROM ratings",
      "SELECT updated_at FROM providers",
      "SeLeCt 1;\nTrUnCaTe ratings",
      "INSERT INTO ratings VALUES (1)",
      "Here is the query: SELECT 1",
      "SELECT 1 /* alter */",
      "WITH t AS (SELECT 1) SELECT * FROM t",
      "" }
CompletionPrefixes == {"", "~~~sql\n", " \n~~~SQL "}
CompletionSuffixes == {"", "\n~~~"}
\* A fenced query whose lines end with a carriage return and a newline.
CrlfCompletion == FENCE \o "sql\r\nSELECT provider_name FROM providers\r\n" \o FENCE
\* A text whose first letter is the long s, U+017F, bare and in a fence
\* labelled with the long s.
LongSCompletion == "\\u017felect provider_name FROM providers"
FencedLongSCompletion == FENCE \o "\\u017fql\n" \o LongSCompletion \o "\n" \o FENCE
Completions ==
    {Failed, Returned(CrlfCompletion), Returned(LongSCompletion),
     Returned(FencedLongSCompletion)} \cup
    { Returned(a \o b \o c) :
        a \in CompletionPrefixes, b \in CompletionBodies, c \in CompletionSuffixes }

\* What the completion service may return for a narration.
NarrationTexts == {" Mount Sinai Hospital is the best option for you. \n"}

\* The rows a generated query may return: any columns of any type.
PrimaryRowPool ==
    { ResultRow("MOUNT SINAI HOSPITAL", Cell("float", 30000), 85, 100),
      ResultRow("NYU LANGONE HOSPITALS", Cell("Decimal", 10000), NoNumber, 10),
      ResultRow("ALBANY MEDICAL CENTER", Cell("float", 20000), 91, 10) }
\* The rows a fallback query may return: its columns are those of the
\* providers table and the average of the ratings.
FallbackRowPool ==
    { ResultRow("MOUNT SINAI HOSPITAL", Cell("float", 30000), 85, 100),
      ResultRow("NYU LANGONE HOSPITALS", Cell("float", 10000), NoNumber, 10),
      ResultRow("ALBANY MEDICAL CENTER", Cell("float", 20000), 91, 10) }
\* From a generated query, a result longer than the 10 rows that the
\* response keeps, its charges going down; from a fallback query, as many
\* rows as its LIMIT allows, which every ordering of lines 209 to 220 leaves
\* in place.
ManyRows == 11
ManyPrimaryRows ==
    [i \in 1..ManyRows |->
        ResultRow("HOSPITAL " \o IntToStr(i), Cell("float", (ManyRows + 1 - i) * 1000), 80, 10)]
\* LIMIT 5 of the fallback queries (lines 236, 252 and 280).
FALLBACK_LIMIT == 5
ManyFallbackRows ==
    [i \in 1..FALLBACK_LIMIT |->
        ResultRow("HOSPITAL " \o IntToStr(i), Cell("float", 20000), 80, 10)]
PrimaryRowLists == (Arrangements(PrimaryRowPool, MaxRows) \ {<< >>}) \cup {ManyPrimaryRows}
FallbackRowLists == (Arrangements(FallbackRowPool, MaxRows) \ {<< >>}) \cup {ManyFallbackRows}

\* The ORDER BY expression of the value ordering of lines 216 to 220, in
\* thousandths, as the data store computes it for a row: COALESCE gives a row
\* without ratings the rating 5.0.
ValueOrderExpression(r) ==
    400000000 \div Max2(r.average_covered_charges.value, 1000)
    + 525 * (IF r.avg_rating = NoNumber THEN 50 ELSE r.avg_rating)
    + 10 * r.total_discharges
\* The key the data store sorts AVG(r.rating) DESC by: PostgreSQL, the one
\* data store that knows ILIKE, takes NULL for larger than every value.
RatingOrderKey(r) == IF r.avg_rating = NoNumber THEN 101 ELSE r.avg_rating
\* Whether a row may come before another under the ORDER BY clause of lines
\* 209 to 220.  The rows carry no ZIP code, so that for the nearest ordering
\* every order of them is the order of some ZIP codes.
MayPrecede(a, b, detected) ==
    IF detected = "cheapest"
    THEN a.average_covered_charges.value <= b.average_covered_charges.value
    ELSE IF detected = "best_rated" THEN RatingOrderKey(a) >= RatingOrderKey(b)
    ELSE IF detected = "nearest" THEN TRUE
    ELSE ValueOrderExpression(a) >= ValueOrderExpression(b)
\* What a fallback query may return: rows in the order it asked for.
OrderedFallbackRows(detected) ==
    { rows \in FallbackRowLists :
        \A i \in 1..Len(rows) : \A j \in (i + 1)..Len(rows) :
            MayPrecede(rows[i], rows[j], detected) }

LlmCall(purpose, detected) == [purpose |-> purpose, intent |-> detected]
AskResponse(kind, answer, sql, data) ==
    [kind |-> kind, answer |-> answer, sql_query |-> sql, data_used |-> data]
NoResponse == AskResponse("none", "", None, NoneList)

AskInit ==
    /\ pc = "ask_start"
    /\ question \in AskQuestions
    /\ intent = None
    /\ llm_calls = << >>
    /\ llm_replies = << >>
    /\ db_log = << >>
    /\ db_replies = << >>
    /\ sql_query = None
    /\ data_used = << >>
    /\ fetched_rows = << >>
    /\ fallback_queries = << >>
    /\ response = NoResponse
    /\ DrgIdle
    /\ SearchIdle
    /\ CallIdle

\* Lines 67 to 73: the question is out of scope.
RejectQuestion ==
    /\ pc = "ask_start"
    /\ ~_is_healthcare_related(question)
    /\ response' = AskResponse("rejected", REFUSAL_ANSWER, None, NoneList)
    /\ pc' = "ask_done"
    /\ UNCHANGED <<question, intent, llm_calls, llm_replies, db_log, db_replies,
                   sql_query, data_used, fetched_rows, fallback_queries, drgVars, searchVars, callVars>>

\* Lines 75 to 80 and 598 to 608: the intent is detected and the completion
\* service is asked for a query.
StartGeneration ==
    /\ pc = "ask_start"
    /\ _is_healthcare_related(question)
    /\ intent' = _detect_query_intent(question)
    /\ llm_calls' = Append(llm_calls, LlmCall("generate_sql", intent'))
    /\ pc' = "ask_generating"
    /\ UNCHANGED <<question, llm_replies, db_log, db_replies, sql_query, data_used, fetched_rows,
                   fallback_queries, response, drgVars, searchVars, callVars>>

\* Lines 610 to 634 and 82 to 87: the completion call raised, or what it
\* returned is not accepted as a query; nothing is executed.
SqlRejected ==
    /\ pc = "ask_generating"
    /\ \E outcome \in Completions :
           /\ _generate_sql(outcome) = None
           /\ llm_replies' = Append(llm_replies, outcome)
    /\ response' = AskResponse("not_understood", NOT_UNDERSTOOD_ANSWER, None, NoneList)
    /\ pc' = "ask_done"
    /\ UNCHANGED <<question, intent, llm_calls, db_log, db_replies, sql_query, data_used, fetched_rows,
                   fallback_queries, drgVars, searchVars, callVars>>

\* Lines 610 to 634 and 89 to 93: the cleaned completion is accepted and sent
\* to the data store.
SqlAccepted ==
    /\ pc = "ask_generating"
    /\ \E outcome \in Completions :
           /\ _generate_sql(outcome) # None
           /\ llm_replies' = Append(llm_replies, outcome)
           /\ sql_query' = _generate_sql(outcome)
    /\ db_log' = Append(db_log, sql_query')
    /\ pc' = "ask_executing"
    /\ UNCHANGED <<question, intent, llm_calls, db_replies, data_used, fetched_rows,
                   fallback_queries, response, drgVars, searchVars, callVars>>

\* Lines 96 to 102: the generated query raised in the data store.
PrimaryFails ==
    /\ pc = "ask_executing"
    /\ db_replies' = Append(db_replies, "raised")
    /\ response' = AskResponse("db_error", DB_ERROR_ANSWER, sql_query, NoneList)
    /\ pc' = "ask_done"
    /\ UNCHANGED <<question, intent, llm_calls, llm_replies, db_log, sql_query, data_used, fetched_rows,
                   fallback_queries, drgVars, searchVars, callVars>>

\* Lines 116 to 135 and 695 to 704: rows came back; they are converted,
\* re-ranked for intent value, and the completion service is asked to narrate.
PrimaryReturnsRows ==
    /\ pc = "ask_executing"
    /\ \E rows \in PrimaryRowLists :
           /\ fetched_rows' = rows
           /\ data_used' = RankForIntent(ConvertRows(rows), intent)
    /\ db_replies' = Append(db_replies, "rows")
    /\ llm_calls' = Append(llm_calls, LlmCall("narrate", intent))
    /\ pc' = "ask_narrating"
    /\ UNCHANGED <<question, intent, llm_replies, db_log, sql_query,
                   fallback_queries, response, drgVars, searchVars, callVars>>

\* Lines 105 to 114 with no fallback query to try: the helpful message.
NoRowsNoFallback ==
    /\ pc = "ask_executing"
    /\ BuildFallbackQueries(question, intent) = << >>
    /\ db_replies' = Append(db_replies, "empty")
    /\ response' = AskResponse("no_results", _generate_helpful_no_results_message(question),
                               sql_query, SomeList(<< >>))
    /\ pc' = "ask_done"
    /\ UNCHANGED <<question, intent, llm_calls, llm_replies, db_log, sql_query, data_used, fetched_rows,
                   fallback_queries, drgVars, searchVars, callVars>>

\* Lines 105 to 106 and 200 to 287: no row came back; the fallback queries
\* are built and the first is sent to the data store.
NoRowsStartFallback ==
    /\ pc = "ask_executing"
    /\ BuildFallbackQueries(question, intent) # << >>
    /\ db_replies' = Append(db_replies, "empty")
    /\ fallback_queries' = BuildFallbackQueries(question, intent)
    /\ db_log' = Append(db_log, Head(fallback_queries'))
    /\ pc' = "ask_fallback"
    /\ UNCHANGED <<question, intent, llm_calls, llm_replies, sql_query, data_used, fetched_rows,
                   response, drgVars, searchVars, callVars>>

\* Line 704: the narration came back.
NarrationReturns ==
    /\ pc = "ask_narrating"
    /\ \E text \in NarrationTexts :
           /\ llm_replies' = Append(llm_replies, Returned(text))
           /\ response' = AskResponse("narrated", str_strip(text), sql_query,
                                      SomeList(Take(data_used, 10)))
    /\ pc' = "ask_done"
    /\ UNCHANGED <<question, intent, llm_calls, db_log, db_replies, sql_query, data_used, fetched_rows,
                   fallback_queries, drgVars, searchVars, callVars>>

\* A narration whose failure is not caught: the request ends in an error.
NarrationFails_Propagates ==
    /\ pc = "ask_narrating"
    /\ llm_replies' = Append(llm_replies, Failed)
    /\ pc' = "ask_raised"
    /\ UNCHANGED <<question, intent, llm_calls, db_log, db_replies, sql_query, data_used, fetched_rows,
                   fallback_queries, response, drgVars, searchVars, callVars>>

\* Lines 708 to 710 and 143 to 149: the narration call raised; the canned
\* answer is formatted, and when the formatting raises as well the error
\* answer is returned.
NarrationFails ==
    /\ pc = "ask_narrating"
    /\ llm_replies' = Append(llm_replies, Failed)
    /\ response' =
           IF FormatRaises(data_used[1])
           THEN AskResponse("error", ERROR_ANSWER, None, NoneList)
           ELSE AskResponse("canned_answer", CannedAnswer(data_used, intent), sql_query,
                            SomeList(Take(data_used, 10)))
    /\ pc' = "ask_done"
    /\ UNCHANGED <<question, intent, llm_calls, db_log, db_replies, sql_query, data_used, fetched_rows,
                   fallback_queries, drgVars, searchVars, callVars>>

\* A fallback loop that gives up at the first query that yields no answer.
NextFallback_GivesUp ==
    /\ fallback_queries' = << >>
    /\ response' = AskResponse("no_results", _generate_helpful_no_results_message(question),
                               sql_query, SomeList(<< >>))
    /\ pc' = "ask_done"
    /\ UNCHANGED db_log

\* Lines 284 to 317 and 107 to 114: the fallback loop goes on to the next
\* query, or ends with the helpful message when none is left.
NextFallback ==
    /\ fallback_queries' = Tail(fallback_queries)
    /\ IF fallback_queries' = << >>
       THEN /\ response' = AskResponse("no_results",
                                       _generate_helpful_no_results_message(question),
                                       sql_query, SomeList(<< >>))
            /\ pc' = "ask_done"
            /\ UNCHANGED db_log
       ELSE /\ db_log' = Append(db_log, Head(fallback_queries'))
            /\ pc' = "ask_fallback"
            /\ UNCHANGED response

\* Lines 312 to 314: the fallback query raised.
FallbackFails ==
    /\ pc = "ask_fallback"
    /\ db_replies' = Append(db_replies, "raised")
    /\ NextFallback
    /\ UNCHANGED <<question, intent, llm_calls, llm_replies, sql_query, data_used, fetched_rows,
                   drgVars, searchVars, callVars>>

\* Line 288: the fallback query returned no row.
FallbackReturnsNothing ==
    /\ pc = "ask_fallback"
    /\ db_replies' = Append(db_replies, "empty")
    /\ NextFallback
    /\ UNCHANGED <<question, intent, llm_calls, llm_replies, sql_query, data_used, fetched_rows,
                   drgVars, searchVars, callVars>>

\* Lines 288 to 306 and 406 to 415: the fallback query returned rows; they
\* are converted, re-ranked for intent value, and narration is asked for.
FallbackReturnsRows ==
    /\ pc = "ask_fallback"
    /\ \E rows \in OrderedFallbackRows(intent) :
           /\ fetched_rows' = rows
           /\ data_used' = RankForIntent(ConvertRows(rows), intent)
    /\ db_replies' = Append(db_replies, "rows")
    /\ llm_calls' = Append(llm_calls, LlmCall("narrate_broader", intent))
    /\ pc' = "ask_fallback_narrating"
    /\ UNCHANGED <<question, intent, llm_replies, db_log, sql_query,
                   fallback_queries, response, drgVars, searchVars, callVars>>

\* Lines 417 and 308 to 312: the narration of the fallback rows came back.
FallbackNarrationReturns ==
    /\ pc = "ask_fallback_narrating"
    /\ \E text \in NarrationTexts :
           /\ llm_replies' = Append(llm_replies, Returned(text))
           /\ response' = AskResponse("fallback_narrated", str_strip(text),
                                      Head(fallback_queries), SomeList(Take(data_used, 5)))
    /\ pc' = "ask_done"
    /\ UNCHANGED <<question, intent, llm_calls, db_log, db_replies, sql_query, data_used, fetched_rows,
                   fallback_queries, drgVars, searchVars, callVars>>

\* Lines 419 to 421 and 308 to 314: the narration call raised; the canned
\* answer is formatted, and when the formatting raises as well the loop goes
\* on to the next query.
FallbackNarrationFails ==
    /\ pc = "ask_fallback_narrating"
    /\ llm_replies' = Append(llm_replies, Failed)
    /\ IF FormatRaises(data_used[1])
       THEN NextFallback
       ELSE /\ response' = AskResponse("fallback_canned",
                                       CannedBroaderAnswer(data_used, intent),
                                       Head(fallback_queries), SomeList(Take(data_used, 5)))
            /\ pc' = "ask_done"
            /\ UNCHANGED <<db_log, fallback_queries>>
    /\ UNCHANGED <<question, intent, llm_calls, db_replies, sql_query, data_used, fetched_rows,
                   drgVars, searchVars, callVars>>

AskNext ==
    \/ RejectQuestion
    \/ StartGeneration
    \/ SqlRejected
    \/ SqlAccepted
    \/ PrimaryFails
    \/ PrimaryReturnsRows
    \/ NoRowsNoFallback
    \/ NoRowsStartFallback
    \/ NarrationReturns
    \/ NarrationFails
    \/ FallbackFails
    \/ FallbackReturnsNothing
    \/ FallbackReturnsRows
    \/ FallbackNarrationReturns
    \/ FallbackNarrationFails

SpecAsk == AskInit /\ [][AskNext]_vars

(***************************************************************************)
(* The composite score on its own (_calculate_composite_score): two        *)
(* responses that differ in their charges only are scored one after the    *)
(* other.                                                                  *)
(***************************************************************************)
\* The fields of a response the score reads: charges in dollars, rating in
\* tenths, distance in hundredths of a kilometre, discharges; NoNumber for a
\* rating or a distance that is None.
ScoreCharges == {0, 500, 1000, 2000, 50000}
ScoreRatings == {NoNumber, 50, 100}
ScoreDistances == {NoNumber, 0, 1000, 8000}
ScoreDischarges == {0, 10, 245}
ScoredResponse(charges, rating, distance, discharges) ==
    [ average_covered_charges |-> charges, average_rating |-> rating,
      distance_km |-> distance, total_discharges |-> discharges ]
ScoredResponses ==
    { ScoredResponse(c, r, d, v) :
        c \in ScoreCharges, r \in ScoreRatings, d \in ScoreDistances, v \in ScoreDischarges }
\* What a call yields: cost_score of line 170 and the score returned at
\* line 192.
ScoreOf(provider) ==
    [ cost_score |-> CostScore(NormalCost(provider.average_covered_charges)),
      composite |-> _calculate_composite_score(provider) ]

ScoreInit ==
    /\ pc = "score_start"
    /\ call_input \in
           { <<a, b>> \in ScoredResponses \X ScoredResponses :
               /\ a.average_covered_charges # b.average_covered_charges
               /\ a.average_rating = b.average_rating
               /\ a.distance_km = b.distance_km
               /\ a.total_discharges = b.total_discharges }
    /\ call_output = << >>
    /\ DrgIdle
    /\ AskIdle
    /\ SearchIdle

ScoreFirst ==
    /\ pc = "score_start"
    /\ call_output' = <<ScoreOf(call_input[1])>>
    /\ pc' = "score_first"
    /\ UNCHANGED <<call_input, drgVars, askVars, searchVars>>

ScoreSecond ==
    /\ pc = "score_first"
    /\ call_output' = Append(call_output, ScoreOf(call_input[2]))
    /\ pc' = "score_done"
    /\ UNCHANGED <<call_input, drgVars, askVars, searchVars>>

ScoreNext == ScoreFirst \/ ScoreSecond

SpecScore == ScoreInit /\ [][ScoreNext]_vars

(***************************************************************************)
(* Two resolutions of the Geo-Resolver, in one process or in two.          *)
(***************************************************************************)
GeoZips == ZipInputs \cup {"90210"}

\* The branch of _get_zip_coordinates that returns: the table (line 203), the
\* stored record (line 215), a prefix branch of lines 221 to 230, or the last
\* branch (line 233).
ResolverTier(zip, lookup) ==
    IF zip \in DOMAIN ZIP_COORDINATES THEN "table"
    ELSE IF lookup.found /\ Truthy(lookup.latitude) /\ Truthy(lookup.longitude) THEN "store"
    ELSE IF RegionPrefix(zip) # "" THEN "regional"
    ELSE "final"

\* The outcomes of the lookup of lines 207 to 212 for a ZIP code, over the
\* stores of the model.
GeoLookups(zip) ==
    {LookupEmpty, LookupRaised}
    \cup {LookupRow(p) : p \in {q \in ProviderPool : q.provider_zip_code = zip}}

\* The pairs of ZIP codes of the two calls: a ZIP code twice, two ZIP codes
\* that reach the last branch, and a ZIP code with an extension before its
\* five-digit base.
GeoPairs ==
    {<<z, z>> : z \in GeoZips} \cup {<<"99999", "90210">>, <<"10001-1234", "10001">>}

\* The two calls: their ZIP codes and the process each runs in.
GeoCalls == [zips : GeoPairs, runs : {<<1, 1>>, <<1, 2>>}]

\* What a call returns, the branch that returned it, and the value of
\* hash(zip_code) % 200 where lines 221 to 233 evaluated it.
Resolution(zip, lookup, h) ==
    [ coords |-> _get_zip_coordinates(zip, lookup, h),
      tier |-> ResolverTier(zip, lookup),
      hash |-> IF ResolverTier(zip, lookup) \in {"regional", "final"} THEN h ELSE NoNumber ]

\* hash(zip_code) % 200 in the second call: the hash of a string is fixed
\* within a process and seeded anew for each process, so the second call
\* finds the value of the first when it runs in the same process for the
\* same ZIP code, and any value otherwise.
SecondHashes ==
    IF /\ call_input.runs[1] = call_input.runs[2]
       /\ call_input.zips[1] = call_input.zips[2]
       /\ call_output[1].hash # NoNumber
    THEN {call_output[1].hash}
    ELSE HashValues

GeoInit ==
    /\ pc = "geo_start"
    /\ call_input \in GeoCalls
    /\ call_output = << >>
    /\ DrgIdle
    /\ AskIdle
    /\ SearchIdle

\* Lines 198 to 211 of the first call: a ZIP code of the table is returned at
\* line 203; for any other the lookup is sent and the call waits at line 211.
GeoFirstCall ==
    /\ pc = "geo_start"
    /\ IF call_input.zips[1] \in DOMAIN ZIP_COORDINATES
       THEN /\ \E h \in HashValues :
                   call_output' = <<Resolution(call_input.zips[1], LookupEmpty, h)>>
            /\ pc' = "geo_first"
       ELSE /\ call_output' = call_output
            /\ pc' = "geo_first_lookup_sent"
    /\ UNCHANGED <<call_input, drgVars, askVars, searchVars>>

\* Lines 211 to 233 of the first call: the lookup returns or raises, and the
\* call returns the stored coordinate or the regional approximation.
GeoFirst ==
    /\ pc = "geo_first_lookup_sent"
    /\ \E lookup \in GeoLookups(call_input.zips[1]), h \in HashValues :
           call_output' = <<Resolution(call_input.zips[1], lookup, h)>>
    /\ pc' = "geo_first"
    /\ UNCHANGED <<call_input, drgVars, askVars, searchVars>>

\* Lines 198 to 211 of the second call.
GeoSecondCall ==
    /\ pc = "geo_first"
    /\ IF call_input.zips[2] \in DOMAIN ZIP_COORDINATES
       THEN /\ \E h \in SecondHashes :
                   call_output' =
                       Append(call_output, Resolution(call_input.zips[2], LookupEmpty, h))
            /\ pc' = "geo_done"
       ELSE /\ call_output' = call_output
            /\ pc' = "geo_second_lookup_sent"
    /\ UNCHANGED <<call_input, drgVars, askVars, searchVars>>

\* Lines 211 to 233 of the second call.
GeoSecond ==
    /\ pc = "geo_second_lookup_sent"
    /\ \E lookup \in GeoLookups(call_input.zips[2]), h \in SecondHashes :
           call_output' =
               Append(call_output, Resolution(call_input.zips[2], lookup, h))
    /\ pc' = "geo_done"
    /\ UNCHANGED <<call_input, drgVars, askVars, searchVars>>

GeoNext == GeoFirstCall \/ GeoFirst \/ GeoSecondCall \/ GeoSecond

SpecGeo == GeoInit /\ [][GeoNext]_vars

(***************************************************************************)
(* The GET /providers endpoint (main.py, search_providers): the framework  *)
(* checks the declared parameters, the handler checks the texts, and the   *)
(* search of ProviderService runs on what passes.                          *)
(***************************************************************************)
\* The parameters of a request; None and NoNumber are a parameter the
\* request does not carry.
EndpointDrgs == {None, "", " ", "470", " 470 "}
EndpointZips == {None, "", " ", "10001", "10001-1234", "10099-12", "1234", "1234a"}
EndpointRadii == {NoNumber, 0, 1, 500, 501}
EndpointLimits == {NoNumber, 0, 1, 100, 101}
EndpointStores == Arrangements(ProviderPool, 1)
Requests ==
    [drg : EndpointDrgs, zip : EndpointZips, radius_km : EndpointRadii, limit : EndpointLimits]

\* Lines 444 to 447: drg and zip are required; radius_km and limit default
\* to 50 and must lie in 1..500 and 1..100.
DEFAULT_RADIUS_KM == 50
DEFAULT_LIMIT == 50
RadiusOf(req) == IF req.radius_km = NoNumber THEN DEFAULT_RADIUS_KM ELSE req.radius_km
LimitOf(req) == IF req.limit = NoNumber THEN DEFAULT_LIMIT ELSE req.limit
QueryParametersValid(req) ==
    /\ req.drg # None
    /\ req.zip # None
    /\ RadiusOf(req) >= 1 /\ RadiusOf(req) <= 500
    /\ LimitOf(req) >= 1 /\ LimitOf(req) <= 100

\* Line 459: the ZIP code the handler lets through.
ZipFormatAccepted(zip) ==
    str_isdigit(str_remove(zip, "-")) /\ Len(str_before(zip, "-")) = 5

Rejection(code, detail) == [status |-> code, detail |-> detail, body |-> NoneList]

EndpointInit ==
    /\ pc = "http_start"
    /\ call_input \in Requests
    /\ call_output = None
    /\ DrgIdle
    /\ AskIdle
    /\ SearchIdle

\* The framework rejects the request before the handler runs.
RejectUnprocessable ==
    /\ pc = "http_start"
    /\ ~QueryParametersValid(call_input)
    /\ call_output' = Rejection(422, "validation error")
    /\ pc' = "http_rejected"
    /\ UNCHANGED <<call_input, drgVars, askVars, searchVars>>

\* Lines 455 and 456.
RejectEmptyDrg ==
    /\ pc = "http_start"
    /\ QueryParametersValid(call_input)
    /\ str_strip(call_input.drg) = ""
    /\ call_output' = Rejection(400, "DRG parameter cannot be empty")
    /\ pc' = "http_rejected"
    /\ UNCHANGED <<call_input, drgVars, askVars, searchVars>>

\* Lines 457 and 458.
RejectEmptyZip ==
    /\ pc = "http_start"
    /\ QueryParametersValid(call_input)
    /\ str_strip(call_input.drg) # ""
    /\ str_strip(call_input.zip) = ""
    /\ call_output' = Rejection(400, "ZIP code parameter cannot be empty")
    /\ pc' = "http_rejected"
    /\ UNCHANGED <<call_input, drgVars, askVars, searchVars>>

\* Lines 459 and 460.
RejectZipFormat ==
    /\ pc = "http_start"
    /\ QueryParametersValid(call_input)
    /\ str_strip(call_input.drg) # ""
    /\ str_strip(call_input.zip) # ""
    /\ ~ZipFormatAccepted(call_input.zip)
    /\ call_output' = Rejection(400, "Invalid ZIP code format")
    /\ pc' = "http_rejected"
    /\ UNCHANGED <<call_input, drgVars, askVars, searchVars>>

\* Line 464: the handler calls search_providers with the stripped query and
\* the ZIP code as it came; the search then runs on the data store.
CallSearchProviders ==
    /\ pc = "http_start"
    /\ QueryParametersValid(call_input)
    /\ str_strip(call_input.drg) # ""
    /\ str_strip(call_input.zip) # ""
    /\ ZipFormatAccepted(call_input.zip)
    /\ drg' = str_strip(call_input.drg)
    /\ zip_code' = call_input.zip
    /\ radius_km' = RadiusOf(call_input)
    /\ limit' = LimitOf(call_input)
    /\ store' \in EndpointStores
    /\ db_failed' = {}
    /\ pc' = "search_start"
    /\ UNCHANGED <<callVars, drg_conditions, matched, askVars, search_center,
                   filtered_providers, results>>

\* Line 467: the handler returns what the search returned.
ReturnResults ==
    /\ pc = "search_done"
    /\ call_output' = [status |-> 200, detail |-> "", body |-> results]
    /\ pc' = "http_done"
    /\ UNCHANGED <<call_input, drgVars, askVars, searchVars>>

EndpointNext ==
    \/ RejectUnprocessable
    \/ RejectEmptyDrg
    \/ RejectEmptyZip
    \/ RejectZipFormat
    \/ CallSearchProviders
    \/ ReturnResults
    \/ ResolveFromTable
    \/ SendLookup
    \/ ResolveFromStore
    \/ ResolveLookupFails
    \/ FetchAndRank
    \/ FetchFails

SpecEndpoint == EndpointInit /\ [][EndpointNext]_vars

(***************************************************************************)
(* The POST /ask endpoint (main.py, ask_ai_assistant): the request model   *)
(* AskRequest validates the question, process_question answers it, and the *)
(* handler returns the answer text in a PlainTextResponse.                 *)
(***************************************************************************)
\* schemas.py, lines 159 to 163.
dangerous_patterns ==
    << <<Lit("<script")>>, <<Lit("javascript:")>>, <<Lit("vbscript:")>>, <<Lit("onload=")>>,
       <<Lit("onerror=")>>,
       <<Lit("drop"), Spaces, Lit("table")>>, <<Lit("delete"), Spaces, Lit("from")>>,
       <<Lit("insert"), Spaces, Lit("into")>>, <<Lit("update"), Spaces, AnyRun, Lit("set")>>,
       <<Lit("--"), OneSpace>>, <<Lit("/*"), AnyRun, Lit("*/")>>,
       <<Lit("xp_cmdshell")>>, <<Lit("sp_executesql")>> >>

MIN_QUESTION_LENGTH == 5
MAX_QUESTION_LENGTH == 1000
\* AskRequest.question: the length bounds of the field (line 140), then
\* validate_question (lines 144 to 170).
QuestionAccepted(v) ==
    /\ Len(v) >= MIN_QUESTION_LENGTH /\ Len(v) <= MAX_QUESTION_LENGTH
    /\ str_strip(v) # ""
    /\ Len(str_strip(v)) >= MIN_QUESTION_LENGTH
    /\ \A i \in 1..Len(dangerous_patterns) :
           ~re_search(str_lower(str_strip(v)), dangerous_patterns[i])

\* The questions posted: no question at all (None), invalid ones, and
\* questions of the flow, one with blanks around it.
PostedQuestions ==
    { None, "", "knee", "     ", "knee; drop  table providers",
      "What's the weather today?",
      " Find cheapest hospital for knee replacement ",
      "Which clinic in Albany is good?" }

HttpResponse(status, media_type, body) ==
    [status |-> status, media_type |-> media_type, body |-> body]

AskHttpInit ==
    /\ pc = "ask_http_start"
    /\ call_input \in PostedQuestions
    /\ call_output = None
    /\ DrgIdle
    /\ AskIdle
    /\ SearchIdle

\* The framework rejects a body that is not a valid AskRequest.
RejectAskRequest ==
    /\ pc = "ask_http_start"
    /\ (call_input = None \/ ~QuestionAccepted(call_input))
    /\ call_output' = HttpResponse(422, "application/json", "validation error")
    /\ pc' = "ask_http_rejected"
    /\ UNCHANGED <<call_input, drgVars, askVars, searchVars>>

\* Lines 482 to 490: the validated question, stripped by validate_question,
\* passes the two checks of the handler and goes to process_question.
CallProcessQuestion ==
    /\ pc = "ask_http_start"
    /\ call_input # None
    /\ QuestionAccepted(call_input)
    /\ question' = str_strip(call_input)
    /\ intent' = None
    /\ llm_calls' = << >>
    /\ llm_replies' = << >>
    /\ db_log' = << >>
    /\ db_replies' = << >>
    /\ sql_query' = None
    /\ data_used' = << >>
    /\ fetched_rows' = << >>
    /\ fallback_queries' = << >>
    /\ response' = NoResponse
    /\ pc' = "ask_start"
    /\ UNCHANGED <<callVars, drgVars, searchVars>>

\* Lines 476 and 493: the handler returns response.answer, a string, and
\* PlainTextResponse sends it as the body, as text.
ReturnAnswerText ==
    /\ pc = "ask_done"
    /\ call_output' = HttpResponse(200, "text/plain", response.answer)
    /\ pc' = "ask_http_done"
    /\ UNCHANGED <<call_input, drgVars, askVars, searchVars>>

AskHttpNext ==
    \/ RejectAskRequest
    \/ CallProcessQuestion
    \/ ReturnAnswerText
    \/ AskNext

SpecAskHttp == AskHttpInit /\ [][AskHttpNext]_vars

(***************************************************************************)
(* The three composite scorers on the same cost, rating, distance and      *)
(* volume: ProviderService._calculate_composite_score, calculate_score of  *)
(* AIService._apply_composite_ranking and                                  *)
(* ValidationUtils.calculate_value_score.                                  *)
(***************************************************************************)
\* How the dict handed to calculate_score holds an absent value: under its
\* key as None, or by not having the key.
AbsentAs == {"None", "no key"}

\* calculate_score of ai_service.py lines 172 to 196 on a dict with the keys
\* average_covered_charges, avg_rating, distance_km and total_discharges: a
\* missing key takes the default of item.get, and float(None) raises, which
\* makes the score 0.0.
calculate_score_with_distance(cost, rating, distance, volume, absent_as) ==
    IF absent_as = "None" /\ (rating = NoNumber \/ distance = NoNumber) THEN FLOAT_ZERO
    ELSE CompositeScore(
             CostScore(Max2(cost, 1000)),
             RatingScore(IF rating = NoNumber THEN FloatOfInt(5) ELSE FloatDiv(rating, 10)),
             DistanceScore(IF distance = NoNumber THEN FloatOfInt(50)
                           ELSE FloatDiv(distance, 100)),
             VolumeScore(volume))

\* calculate_value_score of schemas.py lines 504 to 532.
calculate_value_score(cost, rating, distance, volume) ==
    RoundToTenth(
        CompositeScore(
            CostScore(Max2(cost, 1000)),
            RatingScore(IF TruthyNum(rating) THEN FloatDiv(rating, 10) ELSE FloatOfInt(5)),
            DistanceScore(IF TruthyNum(distance) THEN FloatDiv(distance, 100)
                          ELSE FloatOfInt(50)),
            VolumeScore(IF TruthyNum(volume) THEN volume ELSE 0)))

ScorersInit ==
    /\ pc = "scorers_start"
    /\ call_input \in
           [ cost : ScoreCharges, rating : ScoreRatings, distance : ScoreDistances,
             volume : ScoreDischarges, absent_as : AbsentAs ]
    /\ call_output = << >>
    /\ DrgIdle
    /\ AskIdle
    /\ SearchIdle

\* The search orchestrator scores the record.
ScoreInSearch ==
    /\ pc = "scorers_start"
    /\ call_output' =
           <<_calculate_composite_score(
                 ScoredResponse(call_input.cost, call_input.rating, call_input.distance,
                                call_input.volume))>>
    /\ pc' = "scorers_search"
    /\ UNCHANGED <<call_input, drgVars, askVars, searchVars>>

\* The natural-language layer scores it.
ScoreInNlLayer ==
    /\ pc = "scorers_search"
    /\ call_output' =
           Append(call_output,
                  calculate_score_with_distance(call_input.cost, call_input.rating,
                                                call_input.distance, call_input.volume,
                                                call_input.absent_as))
    /\ pc' = "scorers_nl"
    /\ UNCHANGED <<call_input, drgVars, askVars, searchVars>>

\* ValidationUtils scores it.
ScoreInValidationUtils ==
    /\ pc = "scorers_nl"
    /\ call_output' =
           Append(call_output,
                  calculate_value_score(call_input.cost, call_input.rating,
                                        call_input.distance, call_input.volume))
    /\ pc' = "scorers_done"
    /\ UNCHANGED <<call_input, drgVars, askVars, searchVars>>

ScorersNext == ScoreInSearch \/ ScoreInNlLayer \/ ScoreInValidationUtils

SpecScorers == ScorersInit /\ [][ScorersNext]_vars

(***************************************************************************)
(* The distance calculator on its own (_calculate_distance): the distance  *)
(* from a point to another, then back.                                     *)
(***************************************************************************)
\* Points of the globe: two of New York, two on the equator half a turn
\* apart, two antipodal points off the equator, and the poles.
DistancePoints ==
    { <<"40.7505", "-73.9934">>, <<"40.8386", "-73.9426">>, <<"0.0", "0.0">>,
      <<"0.0", "180.0">>, <<"-82.0", "-180.0">>, <<"82.0", "0.0">>, <<"90.0", "0.0">>,
      <<"-90.0", "0.0">> }

DistanceInit ==
    /\ pc = "distance_start"
    /\ call_input \in DistancePoints \X DistancePoints
    /\ call_output = << >>
    /\ DrgIdle
    /\ AskIdle
    /\ SearchIdle

DistanceThere ==
    /\ pc = "distance_start"
    /\ call_output' =
           <<_calculate_distance(call_input[1][1], call_input[1][2],
                                 call_input[2][1], call_input[2][2])>>
    /\ pc' = "distance_there"
    /\ UNCHANGED <<call_input, drgVars, askVars, searchVars>>

DistanceBack ==
    /\ pc = "distance_there"
    /\ call_output' =
           Append(call_output,
                  _calculate_distance(call_input[2][1], call_input[2][2],
                                      call_input[1][1], call_input[1][2]))
    /\ pc' = "distance_done"
    /\ UNCHANGED <<call_input, drgVars, askVars, searchVars>>

DistanceNext == DistanceThere \/ DistanceBack

SpecDistance == DistanceInit /\ [][DistanceNext]_vars

(***************************************************************************)
(* Properties of the intent classifier.                                    *)
(***************************************************************************)
\* The keyword groups as the specification lists them (section 4.6).
CheapestWords == {"cheapest", "lowest cost", "most affordable", "least expensive", "budget"}
BestRatedWords == {"best rated", "highest rated", "top rated", "best quality", "highest quality"}
NearestWords == {"nearest", "closest", "nearby", "close to", "near me"}
SecondaryWords ==
    {"cost", "price", "cheap", "affordable", "rating", "quality", "best",
     "near", "close", "distance"}
\* Whether the question holds a word of the group, in any letter case.
Mentions(q, group) == \E w \in group : str_contains(str_lower(q), w)
MentionsAnyKeyword(q) ==
    \E i \in 1..Len(intent_patterns) : Mentions(q, intent_patterns[i].keywords)

\* C8: classification is case-insensitive and first-match over the ordered
\* groups cheapest, best_rated, nearest: a question with a cheapest keyword
\* is cheapest whatever else it holds (a best_rated keyword, a secondary
\* term); without one, a best_rated keyword decides; without either, a
\* nearest keyword decides; a question with a keyword of some group gets the
\* label of a group it has a keyword of; and a question with no keyword at
\* all, primary or secondary, is classified value.
C8_FirstMatchPrecedence ==
    pc = "intent_done" =>
        /\ Mentions(question, CheapestWords) => intent = "cheapest"
        /\ (~Mentions(question, CheapestWords) /\ Mentions(question, BestRatedWords))
               => intent = "best_rated"
        /\ (/\ ~Mentions(question, CheapestWords)
            /\ ~Mentions(question, BestRatedWords)
            /\ Mentions(question, NearestWords)) => intent = "nearest"
        /\ MentionsAnyKeyword(question) =>
               \E i \in 1..Len(intent_patterns) :
                   /\ Mentions(question, intent_patterns[i].keywords)
                   /\ intent = intent_patterns[i].intent
        /\ (~MentionsAnyKeyword(question) /\ ~Mentions(question, SecondaryWords))
               => intent = "value"

\* A classified question that holds a cheapest keyword, a best_rated keyword
\* in capitals and so also the secondary term "best".
C8_Witness ==
    /\ pc = "intent_done"
    /\ Mentions(question, CheapestWords)
    /\ Mentions(question, BestRatedWords)
    /\ Mentions(question, SecondaryWords)
    /\ question # str_lower(question)
    /\ intent = "cheapest"

(***************************************************************************)
(* Properties of the procedure matcher.                                    *)
(***************************************************************************)
\* A text of decimal digits, 0 to 9, and nothing else.
IsDecimal(s) == s # "" /\ \A i \in 1..Len(s) : CharIn(CharAt(s, i), DigitChars)
\* Whether the description begins with the code and goes on with a digit.
LongerNumber(d, code) ==
    /\ str_startswith(d, code)
    /\ Len(d) > Len(code)
    /\ CharIn(CharAt(d, Len(code) + 1), DigitChars)

\* C9: for a purely numeric query the filtered fetch returns every description
\* that begins with the code followed by a space or a hyphen, and no
\* description in which the code is only the start of a longer number.
C9_CodeBoundary ==
    (pc = "drg_fetched" /\ IsDecimal(drg)) =>
        \A d \in DrgDefinitions :
            /\ (str_startswith(d, drg \o " ") \/ str_startswith(d, drg \o "-"))
                   => d \in matched
            /\ LongerNumber(d, drg) => d \notin matched

\* C10: the condition set is empty only for an empty or all-whitespace query.
C10_EmptyOnlyWhenBlank ==
    (pc = "drg_fetch_sent" /\ drg_conditions = << >>) => str_strip(drg) = ""

(***************************************************************************)
(* Properties of the provider search.                                      *)
(***************************************************************************)
\* Whether a list of responses holds the response of a record.
Listed(responses, p) ==
    \E i \in 1..Len(responses) : responses[i].provider_id = p.provider_id
\* The distance of a record from the search centre, in ten-thousandths of a
\* kilometre.
DistanceFromCenter(p) ==
    _calculate_distance(search_center[1], search_center[2], p.latitude, p.longitude)
\* A record of the store whose coordinates reach the radius comparison.
Located(p) == Truthy(p.latitude) /\ Truthy(p.longitude)
SearchReturned == pc = "search_done" /\ "provider_fetch" \notin db_failed

\* C2: every result has distance_km <= radius_km; a fetched record lying at
\* exactly radius_km from the search centre is among the records kept, and is
\* returned when the limit does not cut the list; a record farther away than
\* radius_km is never returned, whatever its cost.
C2_WithinRadius ==
    pc = "search_done" =>
        /\ \A i \in 1..Len(results) : results[i].distance_km <= radius_km * 100
        /\ SearchReturned =>
               \A k \in 1..Len(store) :
                   Located(store[k]) =>
                       /\ (/\ DistanceFromCenter(store[k]) = radius_km * 10000
                           /\ DrgFilter(store[k].ms_drg_definition, drg_conditions))
                              => /\ Listed(filtered_providers, store[k])
                                 /\ Len(filtered_providers) <= limit
                                        => Listed(results, store[k])
                       /\ DistanceFromCenter(store[k]) > radius_km * 10000
                              => ~Listed(results, store[k])

\* A search that returned a record lying at exactly radius_km and left out a
\* cheaper record lying four metres farther.
C2_Witness ==
    /\ SearchReturned
    /\ \E k, j \in 1..Len(store) :
           /\ Located(store[k]) /\ Located(store[j])
           /\ DistanceFromCenter(store[k]) = radius_km * 10000
           /\ Listed(results, store[k])
           /\ DistanceFromCenter(store[j]) > radius_km * 10000
           /\ DistanceFromCenter(store[j]) < radius_km * 10000 + 100
           /\ store[j].average_covered_charges < store[k].average_covered_charges
           /\ DrgFilter(store[j].ms_drg_definition, drg_conditions)
           /\ ~Listed(results, store[j])

\* C3: at most limit results, in non-increasing composite-score order, and the
\* top of the ranking: the results are records that passed the filter, as many
\* as the limit allows, and no record that passed the filter and was left out
\* scores strictly higher than a returned one.
C3_TopOfRanking ==
    pc = "search_done" =>
        /\ Len(results) <= limit
        /\ \A i, j \in 1..Len(results) :
               i < j => ~FloatAbove(_calculate_composite_score(results[j]),
                                   _calculate_composite_score(results[i]))
        /\ SearchReturned =>
               /\ Len(results) = Min2(limit, Len(filtered_providers))
               /\ \A i \in 1..Len(results) :
                      \E k \in 1..Len(filtered_providers) : filtered_providers[k] = results[i]
               /\ \A k \in 1..Len(filtered_providers) :
                      ~Listed(results, filtered_providers[k]) =>
                          \A i \in 1..Len(results) :
                              ~FloatAbove(_calculate_composite_score(filtered_providers[k]),
                                          _calculate_composite_score(results[i]))

\* A search in which three records passed the filter, fetched in an order
\* that is not the ranking (the third fetched scores above the first), two
\* were returned and the third of the ranking was left out.
C3_Witness ==
    /\ SearchReturned
    /\ Len(filtered_providers) = 3
    /\ Len(results) = 2
    /\ limit = 2
    /\ LET fetched == FilterByRadius(FetchProviders(store, drg_conditions),
                                     search_center, radius_km)
       IN  FloatAbove(_calculate_composite_score(fetched[3]),
                      _calculate_composite_score(fetched[1]))
    /\ results = SubSeq(filtered_providers, 1, 2)
    /\ FloatAbove(_calculate_composite_score(filtered_providers[2]),
                  _calculate_composite_score(filtered_providers[3]))
    /\ FloatAbove(_calculate_composite_score(results[1]),
                  _calculate_composite_score(results[2]))

\* C4, as the code has it: search_providers always returns a list; when the
\* provider fetch raises it returns the empty list; when only the
\* ZIP-coordinate lookup raises, the search goes on from the regional
\* approximation of the ZIP code and returns what it finds there.
C4_NeverPropagates ==
    /\ pc \in {"search_start", "search_lookup_sent", "search_fetch_sent", "search_done"}
    /\ pc = "search_done" =>
           /\ results # None
           /\ Len(results) <= limit
           /\ "provider_fetch" \in db_failed => results = << >>
           /\ "provider_fetch" \notin db_failed =>
                  results =
                      Take(SortByScore(FilterByRadius(
                               FetchProviders(store, _build_drg_conditions(drg)),
                               search_center, radius_km)), limit)
    /\ (pc = "search_fetch_sent" /\ "zip_lookup" \in db_failed) =>
           \E h \in HashValues : search_center = RegionalCentroid(zip_code, h)

\* A search whose ZIP-coordinate lookup and provider fetch both raised, on a
\* store with records, and which returned the empty list.
C4_Witness ==
    /\ pc = "search_done"
    /\ db_failed = {"zip_lookup", "provider_fetch"}
    /\ store # << >>
    /\ results = << >>

\* C4 as stated: on any data-store error, during the ZIP-coordinate lookup or
\* during the provider fetch, the empty list is returned.
C4_EmptyOnAnyError ==
    (pc = "search_done" /\ db_failed # {}) => results = << >>

(***************************************************************************)
(* Properties of the natural-language flow.                                *)
(***************************************************************************)
\* The mutation keywords, and a query that must not be executed: one that
\* does not begin with SELECT or holds a mutation keyword, in any letter
\* case. A word in some letter case is the word with each of its letters
\* capital or small.
MutationKeywords == {"DROP", "DELETE", "UPDATE", "INSERT", "ALTER", "CREATE", "TRUNCATE"}
SpellsAt(text, i, word) ==
    /\ i + Len(word) - 1 <= Len(text)
    /\ \A k \in 1..Len(word) :
           CharAt(text, i + k - 1) \in {CharAt(word, k), lowerChar(CharAt(word, k))}
Unsafe(text) ==
    \/ ~SpellsAt(text, 1, "SELECT")
    \/ \E k \in MutationKeywords : \E i \in 1..Len(text) : SpellsAt(text, i, k)
\* The first call to the completion service, the one for the query, is over.
GenerationOver == Len(llm_replies) >= 1
GenerationRaised == GenerationOver /\ llm_replies[1].raised
\* The query the completion yields once its fences and margins are dropped.
GeneratedQuery == clean_sql(llm_replies[1].content)

\* C1: the only completion-generated text ever sent to the data store is the
\* cleaned completion, and only when it begins with SELECT and holds no
\* mutation keyword in any letter case; for every other completion nothing is
\* sent to the data store and the request ends with the canned "couldn't
\* understand" response, which carries no query and no data.
C1_NoUnsafeExecution ==
    /\ db_log # << >> =>
           /\ GenerationOver
           /\ ~GenerationRaised
           /\ db_log[1] = GeneratedQuery
           /\ sql_query = GeneratedQuery
           /\ ~Unsafe(db_log[1])
    /\ (GenerationOver /\ ~GenerationRaised /\ Unsafe(GeneratedQuery)) =>
           /\ db_log = << >>
           /\ db_replies = << >>
           /\ pc = "ask_done"
           /\ response = AskResponse("not_understood", NOT_UNDERSTOOD_ANSWER, None, NoneList)

\* The places process_question can be at, and the replies that are failures.
AskStates ==
    {"ask_start", "ask_generating", "ask_executing", "ask_narrating", "ask_fallback",
     "ask_fallback_narrating", "ask_done"}
PrimaryRaised == Len(db_replies) >= 1 /\ db_replies[1] = "raised"
PrimaryReturnedRows == Len(db_replies) >= 1 /\ db_replies[1] = "rows"
PrimaryReturnedNothing == Len(db_replies) >= 1 /\ db_replies[1] = "empty"
LastNarrationRaised == Len(llm_replies) >= 2 /\ llm_replies[Len(llm_replies)].raised
AFallbackRaised == \E i \in 2..Len(db_replies) : db_replies[i] = "raised"
AnyCallFailed ==
    \/ \E i \in 1..Len(llm_replies) : llm_replies[i].raised
    \/ \E i \in 1..Len(db_replies) : db_replies[i] = "raised"
\* The responses whose answer is a text of the code, not of the completion
\* service.
CannedKinds ==
    {"not_understood", "db_error", "no_results", "canned_answer", "error", "fallback_canned"}
HelpfulResponse ==
    AskResponse("no_results", _generate_helpful_no_results_message(question),
                sql_query, SomeList(<< >>))

\* What process_question has returned once it is over: an answer, and a
\* canned one after a failed query generation, a failed primary query or a
\* failed narration.  A failed fallback query is only skipped: the answer is
\* then what the remaining fallback queries lead to.
AnswerAfterFailures ==
    /\ pc \in AskStates
    /\ pc = "ask_done" =>
           /\ response.kind # "none"
           /\ response.answer # ""
           /\ GenerationRaised =>
                  response = AskResponse("not_understood", NOT_UNDERSTOOD_ANSWER,
                                         None, NoneList)
           /\ PrimaryRaised =>
                  response = AskResponse("db_error", DB_ERROR_ANSWER, sql_query, NoneList)
           /\ (PrimaryReturnedRows /\ LastNarrationRaised) =>
                  \/ /\ response.kind = "canned_answer"
                     /\ response.answer = CannedAnswer(data_used, intent)
                  \/ /\ response.kind = "error"
                     /\ response.answer = ERROR_ANSWER
           /\ (PrimaryReturnedNothing /\ LastNarrationRaised) =>
                  \/ /\ response.kind = "fallback_canned"
                     /\ response.answer = CannedBroaderAnswer(data_used, intent)
                  \/ response = HelpfulResponse
           /\ (PrimaryReturnedNothing /\ db_replies[Len(db_replies)] # "rows") =>
                  response = HelpfulResponse
           /\ response.kind \notin CannedKinds \cup {"rejected"} =>
                  /\ ~GenerationRaised
                  /\ ~PrimaryRaised
                  /\ ~llm_replies[Len(llm_replies)].raised
                  /\ response.answer = str_strip(llm_replies[Len(llm_replies)].content)

\* How far process_question is from returning, at most: the calls it may
\* still await, two for each fallback query that is left, of which there are
\* three at most.
AskMeasure ==
    IF pc = "ask_done" THEN 0
    ELSE IF pc = "ask_narrating" THEN 1
    ELSE IF pc = "ask_fallback_narrating" THEN 2 * Len(fallback_queries)
    ELSE IF pc = "ask_fallback" THEN 2 * Len(fallback_queries) + 1
    ELSE IF pc = "ask_executing" THEN 8
    ELSE IF pc = "ask_generating" THEN 9
    ELSE 10

\* C5, as the code has it: process_question is always at one of its own
\* places, never in an error, every step brings it nearer to returning, and
\* what it returns is an answer.  A failed
\* query generation, a failed primary query and a failed narration each yield a
\* canned answer.  A failed fallback query is only skipped: the answer is then
\* what the remaining fallback queries lead to, the narration of their rows by
\* the completion service, its canned replacement, or the canned no-results
\* message when none of them returns rows.
C5_AlwaysAnswers == [](AnswerAfterFailures) /\ [][AskMeasure' < AskMeasure]_vars

\* A request in which a fallback query raised, a later one returned rows, the
\* narration of these rows raised, and the canned replacement was returned.
C5_Witness ==
    /\ pc = "ask_done"
    /\ AFallbackRaised
    /\ db_replies[Len(db_replies)] = "rows"
    /\ LastNarrationRaised
    /\ response.kind = "fallback_canned"

\* C5 as stated: process_question always returns and never raises, and each
\* failure of a completion-service call or of a data-store call, primary or
\* fallback, yields a canned textual answer.
C5_EveryFailureCanned ==
    /\ pc \in AskStates
    /\ (pc = "ask_done" /\ AnyCallFailed) => response.kind \in CannedKinds

\* C6: a question that holds none of the healthcare keywords is rejected at
\* once: the request goes from its start to its end with the canned refusal,
\* which holds 'hospital pricing and quality information' and carries no query
\* and no data, and neither the completion service nor the data store is
\* called.
C6_OutOfScopeRejected ==
    (\A k \in healthcare_keywords : ~str_contains(str_lower(question), k)) =>
        /\ pc \in {"ask_start", "ask_done"}
        /\ llm_calls = << >>
        /\ llm_replies = << >>
        /\ db_log = << >>
        /\ db_replies = << >>
        /\ pc = "ask_done" =>
               /\ response = AskResponse("rejected", REFUSAL_ANSWER, None, NoneList)
               /\ str_contains(response.answer, "hospital pricing and quality information")

\* The question about the weather was answered with the refusal.
C6_Witness ==
    /\ pc = "ask_done"
    /\ question = "What's the weather today?"
    /\ response.kind = "rejected"
    /\ response.sql_query = None
    /\ response.data_used = NoneList
    /\ llm_calls = << >>
    /\ db_log = << >>

\* The labels of the specification, and those of the code.
FourIntents == {"cheapest", "best_rated", "nearest", "value"}
FiveIntents == FourIntents \cup {"comparison"}
ComparisonWords == {"compare", "versus", "vs", "difference between"}
Classified == pc # "ask_start" /\ llm_calls # << >>

\* C7, as the code has it: the classifier returns one of five labels, the
\* four of the specification and comparison; comparison is returned exactly
\* for a question with a comparison keyword and no keyword of the groups
\* cheapest, best_rated and nearest, and it is passed on to query generation,
\* fallback search and narration like the others.
C7_FiveIntents ==
    /\ intent \in FiveIntents \cup {None}
    /\ \A i \in 1..Len(llm_calls) : llm_calls[i].intent \in FiveIntents
    /\ Classified =>
           /\ intent \in FiveIntents
           /\ \A i \in 1..Len(llm_calls) : llm_calls[i].intent = intent
           /\ intent = "comparison" <=>
                  /\ Mentions(question, ComparisonWords)
                  /\ ~Mentions(question, CheapestWords)
                  /\ ~Mentions(question, BestRatedWords)
                  /\ ~Mentions(question, NearestWords)

\* A question classified comparison whose label went to query generation, to
\* the fallback search and to the narration of the fallback rows.
C7_Witness ==
    /\ intent = "comparison"
    /\ fallback_queries # << >>
    /\ Head(fallback_queries) \in
           { FallbackQuery(where, "comparison") :
               where \in {"(" \o city_patterns.nyc \o ")"} }
    /\ \E i \in 1..Len(llm_calls) :
           llm_calls[i] = LlmCall("narrate_broader", "comparison")
    /\ llm_calls[1] = LlmCall("generate_sql", "comparison")

\* C7 as stated: the classifier returns one of exactly four intents, and no
\* other label is passed on.
C7_FourIntents ==
    /\ intent \in FourIntents \cup {None}
    /\ \A i \in 1..Len(llm_calls) : llm_calls[i].intent \in FourIntents

(***************************************************************************)
(* Properties of the order of the rows the natural-language flow returns.  *)
(***************************************************************************)
\* The rows of the response, none when it carries no list.
ReturnedRows == IF response.data_used.is_none THEN << >> ELSE response.data_used.rows
Rated(r) == r.avg_rating # NoNumber
NonDecreasingInCost(rows) ==
    \A i \in 1..Len(rows) : \A j \in (i + 1)..Len(rows) :
        rows[i].average_covered_charges.value <= rows[j].average_covered_charges.value
\* Among the rows that have a rating; where a row without one goes is the
\* matter of the next property.
NonIncreasingInRating(rows) ==
    \A i \in 1..Len(rows) : \A j \in (i + 1)..Len(rows) :
        (Rated(rows[i]) /\ Rated(rows[j])) => rows[i].avg_rating >= rows[j].avg_rating

\* C11: the rows returned for a question of intent cheapest are non-decreasing
\* in cost and those returned for intent best_rated are non-increasing in
\* average rating, on the primary path and on the fallback path, whatever
\* order the data store returned the rows in.
C11_SingleFactorOrder ==
    pc = "ask_done" =>
        /\ intent = "cheapest" => NonDecreasingInCost(ReturnedRows)
        /\ intent = "best_rated" => NonIncreasingInRating(ReturnedRows)

\* The response carries the rows of a fallback query, which the data store
\* put in the order of the code's own ORDER BY clause.
FallbackAnswered == pc = "ask_done" /\ response.kind \in {"fallback_narrated", "fallback_canned"}

\* C12: under the best_rated ordering a row without a rating comes after
\* every row that has one; here where the code applies that ordering itself,
\* in the fallback queries of intent best_rated.
C12_UnratedLast ==
    (FallbackAnswered /\ intent = "best_rated") =>
        \A i \in 1..Len(ReturnedRows) : \A j \in (i + 1)..Len(ReturnedRows) :
            ~(~Rated(ReturnedRows[i]) /\ Rated(ReturnedRows[j]))

(***************************************************************************)
(* Properties of the composite score.                                      *)
(***************************************************************************)
\* C13: of two responses with the same rating, distance and discharges, the
\* one with the lower charges (both at least 0) has the strictly higher cost
\* term and the strictly higher composite score.
C13_CostMonotone ==
    (/\ pc = "score_done"
     /\ call_input[1].average_covered_charges < call_input[2].average_covered_charges) =>
        /\ FloatAbove(call_output[1].cost_score, call_output[2].cost_score)
        /\ FloatAbove(call_output[1].composite, call_output[2].composite)

\* The score as the specification writes it:
\* 0.40 * (1,000,000 / max(cost, 1000)) + 0.35 * (rating * 15)
\* + 0.15 * max(0, 100 - 1.5 * distance_km) + 0.10 * min(ln(volume + 1) * 10, 50),
\* the rating being 5.0 when absent.
SpecifiedComposite(provider) ==
    CompositeScore(
        CostScore(Max2(provider.average_covered_charges, 1000)),
        RatingScore(IF provider.average_rating = NoNumber THEN FloatOfInt(5)
                    ELSE FloatDiv(provider.average_rating, 10)),
        DistanceScore(FloatDiv(provider.distance_km, 100)),
        VolumeScore(provider.total_discharges))

\* C14: for every present cost of at least 0 the composite score is the
\* specified one; charges 1000, rating 10, distance 0 and no discharge give
\* 467.5.
C14_CompositeFormula ==
    (pc \in {"score_first", "score_done"} /\ call_input[1].distance_km # NoNumber) =>
        /\ call_output[1].composite = SpecifiedComposite(call_input[1])
        /\ call_input[1] = ScoredResponse(1000, 100, 0, 0) =>
               call_output[1].composite = FloatDiv(4675, 10)

(***************************************************************************)
(* Properties of the Geo-Resolver.                                         *)
(***************************************************************************)
\* The values _get_zip_coordinates can return for the ZIP code of the search:
\* one for each outcome of the lookup, a raised one included, and each hash.
ResolverReturns ==
    {_get_zip_coordinates(zip_code, lookup, h) :
        lookup \in LookupOutcomes(store, zip_code) \cup {LookupRaised}, h \in HashValues}

\* C15: the Geo-Resolver never fails. For every ZIP code, one the table and
\* the store do not know and one whose lookup raises included, it returns a
\* pair of two present values, and the search goes on with that pair as its
\* centre. The ZIP code and the store of a search do not change, so what the
\* resolver can return is looked at where the search starts.
C15_ResolverTotal ==
    /\ pc = "search_start" =>
           \A coords \in ResolverReturns :
               Len(coords) = 2 /\ Truthy(coords[1]) /\ Truthy(coords[2])
    /\ pc \in {"search_fetch_sent", "search_done"} =>
           /\ \E lookup \in LookupOutcomes(store, zip_code) \cup {LookupRaised} :
                  \E h \in HashValues :
                      search_center = _get_zip_coordinates(zip_code, lookup, h)
           /\ Truthy(search_center[1]) /\ Truthy(search_center[2])
    /\ (pc = "search_done" /\ "provider_fetch" \notin db_failed) =>
           filtered_providers =
               SortByScore(FilterByRadius(FetchProviders(store, _build_drg_conditions(drg)),
                                          search_center, radius_km))

\* A search for a ZIP code in no table and no record whose lookup raised, and
\* which went on to return providers around the coordinate it was given.
C15_Witness ==
    /\ pc = "search_done"
    /\ zip_code = "99999"
    /\ db_failed = {"zip_lookup"}
    /\ search_center \in ResolverReturns
    /\ results # << >>

\* The centre of line 233, without its variation.
FINAL_CENTROID == <<"42.9538", "-75.5268">>

\* C16: a ZIP code in no table, with no stored record and with no covered
\* prefix resolves to the fixed final centroid: two such resolutions, of the
\* same ZIP code or of two, return that one coordinate.
C16_FixedFinalCentroid ==
    (/\ pc = "geo_done"
     /\ call_output[1].tier = "final"
     /\ call_output[2].tier = "final") =>
        /\ call_output[1].coords = FINAL_CENTROID
        /\ call_output[2].coords = call_output[1].coords

\* C17: two resolutions of the same ZIP code by the regional heuristic, in
\* one run of the service or in two, return the same coordinate.
C17_SameZipSameCoordinate ==
    (/\ pc = "geo_done"
     /\ call_input.zips[1] = call_input.zips[2]
     /\ call_output[1].tier \in {"regional", "final"}
     /\ call_output[2].tier \in {"regional", "final"}) =>
        call_output[2].coords = call_output[1].coords

\* A ZIP code with an extension, and the five characters before it.
HasExtension(zip) == Len(zip) > 5 /\ CharAt(zip, 6) = "-"
BaseZip(zip) == SubSeq(zip, 1, 5)

\* C18: a ZIP code given with an extension is matched as its five-digit
\* base: its resolution returns the coordinate the resolution of the base
\* returns ('10001-1234' that of '10001').
C18_ExtensionIgnored ==
    (/\ pc = "geo_done"
     /\ HasExtension(call_input.zips[1])
     /\ call_input.zips[2] = BaseZip(call_input.zips[1])) =>
        call_output[1].coords = call_output[2].coords

(***************************************************************************)
(* Properties of the endpoint.                                             *)
(***************************************************************************)
\* A ZIP code as the specification wants it: five digits, or five digits, a
\* hyphen and four digits.
WellFormedZip(zip) ==
    \/ Len(zip) = 5 /\ IsDecimal(zip)
    \/ /\ Len(zip) = 10
       /\ IsDecimal(SubSeq(zip, 1, 5))
       /\ CharAt(zip, 6) = "-"
       /\ IsDecimal(SubSeq(zip, 7, 10))
\* A request the specification rejects.
InvalidRequest(req) ==
    \/ req.drg = None \/ req.zip = None
    \/ str_strip(req.drg) = ""
    \/ ~WellFormedZip(req.zip)
    \/ RadiusOf(req) < 1 \/ RadiusOf(req) > 500
    \/ LimitOf(req) < 1 \/ LimitOf(req) > 100
\* No access to the data store was made for the request.
NoDataAccess == SearchIdle

\* C19: a request with a malformed ZIP code, an empty or blank procedure
\* query, a radius or limit out of range, or a required parameter missing
\* is rejected, and no access to the data store is made for it.
C19_RejectedBeforeDataAccess ==
    (pc # "http_start" /\ InvalidRequest(call_input)) =>
        /\ pc = "http_rejected"
        /\ call_output.status \in {400, 422}
        /\ NoDataAccess

(***************************************************************************)
(* Properties of the /ask endpoint.                                        *)
(***************************************************************************)
\* What a body must be for a client to read it as a JSON object with an
\* 'answer' field: JSON, and the text of an object.
JsonObjectWithAnswer(resp) ==
    /\ resp.media_type = "application/json"
    /\ str_startswith(str_lstrip(resp.body), "{")
    /\ str_contains(resp.body, "\"answer\"")

\* C21: /ask answers every accepted question with status 200 and a JSON
\* object that has an 'answer' field, which for an out-of-scope question
\* holds the canned refusal.
C21_AskReturnsJsonAnswer ==
    pc = "ask_http_done" =>
        /\ call_output.status = 200
        /\ JsonObjectWithAnswer(call_output)
        /\ ~_is_healthcare_related(question) =>
               str_contains(call_output.body, "hospital pricing and quality information")

(***************************************************************************)
(* Properties of the distance calculator.                                  *)
(***************************************************************************)
\* C22: the distance is symmetric, zero from a point to itself, never
\* negative and never the value returned for an error, antipodal points
\* included.
C22_DistanceWellBehaved ==
    /\ pc = "distance_done" =>
           /\ call_output[1] = call_output[2]
           /\ call_input[1] = call_input[2] => call_output[1] = 0
    /\ pc \in {"distance_there", "distance_done"} =>
           /\ call_output[1] >= 0
           /\ call_output[1] # INFINITE_DISTANCE

(***************************************************************************)
(* Properties of the order of the steps of a request.                      *)
(***************************************************************************)
\* The calls made for the narration of rows, and the data-store replies that
\* carried rows.
NarrationCalls == {i \in 1..Len(llm_calls) : llm_calls[i].purpose # "generate_sql"}
RowReplies == {i \in 1..Len(db_replies) : db_replies[i] = "rows"}
NoCallRaised ==
    /\ \A i \in 1..Len(llm_replies) : ~llm_replies[i].raised
    /\ \A i \in 1..Len(db_replies) : db_replies[i] # "raised"

\* The order every request follows, but for the message of no result.
StepsInOrder ==
    /\ Len(llm_calls) >= 1 =>
           /\ _is_healthcare_related(question)
           /\ intent = _detect_query_intent(question)
           /\ llm_calls[1] = LlmCall("generate_sql", intent)
    /\ db_log # << >> =>
           /\ Len(llm_replies) >= 1
           /\ _generate_sql(llm_replies[1]) # None
           /\ sql_query = _generate_sql(llm_replies[1])
           /\ db_log[1] = sql_query
    /\ Len(db_log) >= 2 =>
           /\ db_replies[1] = "empty"
           /\ \A i \in 2..Len(db_log) :
                  db_log[i] = BuildFallbackQueries(question, intent)[i - 1]
    /\ NarrationCalls # {} => data_used # << >>
    /\ Cardinality(NarrationCalls) = Cardinality(RowReplies)
    /\ pc # "ask_done" => response = NoResponse
    /\ pc = "ask_done" => response.kind # "none"
    /\ (pc = "ask_done" /\ NoCallRaised) =>
           response.kind \in
               {"rejected", "not_understood", "no_results", "narrated", "fallback_narrated"}

\* C23, as the code has it: scope check, intent, query build, execution,
\* then fallback search or narration. The data store is queried only after
\* a generated query was obtained and validated, the fallback queries only
\* after the primary query returned no row, narration is asked only for a
\* row set that is not empty, the request ends in one response, and the
\* message of no result comes only after every fallback query was tried
\* and each came back empty or raised.
C23_StepOrder ==
    /\ StepsInOrder
    /\ (pc = "ask_done" /\ response.kind = "no_results") =>
           /\ db_replies[1] = "empty"
           /\ Len(db_replies) = 1 + Len(BuildFallbackQueries(question, intent))
           /\ RowReplies = {}

\* A request whose primary query returned no row, whose fallback queries
\* were all tried, one of which raised, and which ended with the message of
\* no result.
C23_Witness ==
    /\ pc = "ask_done"
    /\ response.kind = "no_results"
    /\ Len(db_replies) >= 3
    /\ db_replies[2] = "raised"
    /\ db_replies[Len(db_replies)] = "empty"

\* C23 as stated: the same order, the message of no result coming only
\* after every fallback query came back empty.
C23_NoResultsOnlyAfterEmpty ==
    /\ StepsInOrder
    /\ (pc = "ask_done" /\ response.kind = "no_results") =>
           \A i \in 1..Len(db_replies) : db_replies[i] = "empty"

(***************************************************************************)
(* Properties of the fallback queries.                                     *)
(***************************************************************************)
\* The fallback queries sent to the data store so far, in order, and the
\* replies to them.
FallbacksSent == SubSeq(db_log, 2, Len(db_log))
FallbackReplies == SubSeq(db_replies, 2, Len(db_replies))
\* What a fallback query widens: the ZIP prefix, the procedure category, or
\* the city.
FallbackKind(query) ==
    IF str_contains(query, "p.provider_zip_code LIKE") THEN "zip"
    ELSE IF str_contains(query, "p.provider_city ILIKE") THEN "city"
    ELSE "procedure"
InCodeOrder(first, second) ==
    \/ first = "zip" /\ second \in {"procedure", "city"}
    \/ first = "procedure" /\ second = "city"
InStatedOrder(first, second) ==
    \/ first = "zip" /\ second \in {"city", "procedure"}
    \/ first = "city" /\ second = "procedure"
\* The first fallback query that returned rows is the last one sent, and
\* the response carries it and its rows; once a fallback query has returned
\* rows the request ends.
FirstRowsAnswer ==
    /\ \A i \in 2..(Len(db_replies) - 1) : db_replies[i] # "rows"
    /\ (Len(db_replies) >= 2 /\ db_replies[Len(db_replies)] = "rows" /\ pc = "ask_done") =>
           /\ response.kind \in {"fallback_narrated", "fallback_canned"}
           /\ response.sql_query = db_log[Len(db_log)]
    /\ (pc = "ask_done" /\ response.kind \in {"fallback_narrated", "fallback_canned"}) =>
           /\ Len(db_replies) = Len(db_log)
           /\ db_replies[Len(db_replies)] = "rows"
           /\ response.sql_query = db_log[Len(db_log)]
FallbacksOrderedByIntent ==
    \A i \in 1..Len(FallbacksSent) : str_contains(FallbacksSent[i], base_order(intent))

\* C24, as the code has it: after a primary query without rows the fallback
\* queries are sent in the order ZIP prefix, procedure category, city, each
\* with the ORDER BY of the detected intent; the first that returns rows
\* gives the response and no later one is sent.
C24_FallbackOrder ==
    /\ Len(db_log) >= 2 => db_replies[1] = "empty"
    /\ \A i \in 1..Len(FallbacksSent) : \A j \in (i + 1)..Len(FallbacksSent) :
           InCodeOrder(FallbackKind(FallbacksSent[i]), FallbackKind(FallbacksSent[j]))
    /\ FallbacksOrderedByIntent
    /\ FirstRowsAnswer

\* A request whose procedure fallback came back empty and whose city
\* fallback, sent after it, returned the rows of the response.
C24_Witness ==
    /\ pc = "ask_done"
    /\ response.kind = "fallback_narrated"
    /\ Len(FallbacksSent) >= 2
    /\ FallbackKind(FallbacksSent[Len(FallbacksSent) - 1]) = "procedure"
    /\ FallbackKind(FallbacksSent[Len(FallbacksSent)]) = "city"
    /\ FallbackReplies[Len(FallbackReplies) - 1] = "empty"

\* C24 as stated: the order is ZIP prefix, city, procedure category.
C24_CityBeforeProcedure ==
    /\ Len(db_log) >= 2 => db_replies[1] = "empty"
    /\ \A i \in 1..Len(FallbacksSent) : \A j \in (i + 1)..Len(FallbacksSent) :
           InStatedOrder(FallbackKind(FallbacksSent[i]), FallbackKind(FallbacksSent[j]))
    /\ FallbacksOrderedByIntent
    /\ FirstRowsAnswer

(***************************************************************************)
(* Properties of the calls to the completion service.                      *)
(***************************************************************************)
\* C25: a request makes at most two calls to the completion service, the
\* first for the query and the second for the narration of rows, on the
\* primary path and on the fallback path, and no call follows one that
\* failed.
C25_AtMostTwoCalls ==
    /\ Len(llm_calls) <= 2
    /\ Len(llm_calls) >= 1 => llm_calls[1].purpose = "generate_sql"
    /\ Len(llm_calls) = 2 => llm_calls[2].purpose \in {"narrate", "narrate_broader"}
    /\ \A i \in 1..Len(llm_replies) : llm_replies[i].raised => Len(llm_calls) = i

\* A request that went through two fallback queries, the first of which
\* raised, whose narration call failed, and which returned the canned
\* replacement after two calls in all.
C25_Witness ==
    /\ pc = "ask_done"
    /\ Len(db_replies) >= 3
    /\ db_replies[2] = "raised"
    /\ Len(llm_calls) = 2
    /\ llm_calls[2].purpose = "narrate_broader"
    /\ llm_replies[2].raised
    /\ response.kind = "fallback_canned"

(***************************************************************************)
(* Completeness of the radius filter.                                      *)
(***************************************************************************)
\* A record whose two coordinates are present, zero included.
HasCoordinates(p) == p.latitude # None /\ p.longitude # None

\* C26: a fetched record is kept if and only if its coordinates are present
\* and its distance from the search centre is at most radius_km, for every
\* latitude and longitude, the value 0 included.
C26_KeptIffPresentAndNear ==
    SearchReturned =>
        \A k \in 1..Len(store) :
            DrgFilter(store[k].ms_drg_definition, drg_conditions) =>
                (Listed(filtered_providers, store[k])
                    <=> /\ HasCoordinates(store[k])
                        /\ WithinRadius(DistanceFromCenter(store[k]), radius_km))

(***************************************************************************)
(* The rows of an answer.                                                  *)
(***************************************************************************)
\* A response built from rows, on the primary path or on the fallback path.
PrimaryKinds == {"narrated", "canned_answer"}
FallbackKinds == {"fallback_narrated", "fallback_canned"}
AnswerFromRows == pc = "ask_done" /\ response.kind \in PrimaryKinds \cup FallbackKinds
\* Two lists hold the same rows, each as many times.
SameRows(a, b) ==
    /\ Len(a) = Len(b)
    /\ \A i \in 1..Len(a) :
           Cardinality({k \in 1..Len(a) : a[k] = a[i]})
               = Cardinality({k \in 1..Len(b) : b[k] = a[i]})
PlaceIn(list, row) == CHOOSE k \in 1..Len(list) : list[k] = row
\* The rows are in non-increasing order of score, rows of equal score in
\* the order of the fetch.
RankedByScore(ranked, fetched) ==
    \A i \in 1..Len(ranked) : \A j \in (i + 1)..Len(ranked) :
        /\ ~FloatAbove(calculate_score(ranked[j]), calculate_score(ranked[i]))
        /\ calculate_score(ranked[i]) = calculate_score(ranked[j])
               => PlaceIn(fetched, ranked[i]) < PlaceIn(fetched, ranked[j])
\* The rows of a response against the rows the fetch handed over.
RowsOfAnswer(fetched) ==
    LET returned == response.data_used.rows
        cut == IF response.kind \in PrimaryKinds THEN 10 ELSE 5
    IN  /\ intent # "value" => data_used = fetched
        /\ intent = "value" => SameRows(data_used, fetched) /\ RankedByScore(data_used, fetched)
        /\ Len(returned) = Min2(cut, Len(data_used))
        /\ \A i \in 1..Len(returned) : returned[i] = data_used[i]

\* C27 as amended: the rows are re-ordered by composite score exactly when
\* the intent is value and keep the order of the data store otherwise; the
\* rows returned are the first 10 (primary path) or 5 (fallback path) of
\* them, and they are the fetched rows with every value that is not an int,
\* a float, a str or None replaced by its text.
C27_RowsOfAnswer == AnswerFromRows => RowsOfAnswer(ConvertRows(fetched_rows))

\* A value request whose generated query returned more than 10 rows in
\* another order than that of the score: the answer carries the 10 best.
C27_Witness ==
    /\ AnswerFromRows
    /\ response.kind = "narrated"
    /\ intent = "value"
    /\ Len(fetched_rows) > 10
    /\ data_used # ConvertRows(fetched_rows)
    /\ Len(response.data_used.rows) = 10
    /\ response.data_used.rows[1] = fetched_rows[Len(fetched_rows)]

\* C27 as stated: the rows returned are fetched rows, none of them altered.
C27_RowsUnaltered == AnswerFromRows => RowsOfAnswer(fetched_rows)

(***************************************************************************)
(* Equivalence of the composite scorers.                                   *)
(***************************************************************************)
\* Two scores that are the same once rounded to one decimal.
SameUpToRounding(a, b) == RoundToTenth(a) = RoundToTenth(b)

\* C28: on the same cost, rating, distance and volume, cost 0, distance 0 and
\* an absent rating or distance included, the scorer of the search
\* orchestrator, the scorer of the natural-language layer and
\* calculate_value_score give the same score up to display rounding.
C28_ScorersAgree ==
    pc = "scorers_done" =>
        /\ call_output[1] = call_output[2]
        /\ SameUpToRounding(call_output[1], call_output[3])
        /\ SameUpToRounding(call_output[2], call_output[3])

\* Where the three do agree: a cost that is not 0, a rating, and a distance
\* that is not 0.
ScorersAgreeOnFullRecords ==
    (/\ pc = "scorers_done"
     /\ call_input.cost # 0
     /\ call_input.rating # NoNumber
     /\ TruthyNum(call_input.distance)) => C28_ScorersAgree

(***************************************************************************)
(* The procedure filter of the fallback queries.                           *)
(***************************************************************************)
\* Procedure descriptions of the data set, each starting with its code.
DrgDescriptions ==
    { "470 - MAJOR JOINT REPLACEMENT OR REATTACHMENT OF LOWER EXTREMITY W/O MCC",
      "291 - HEART FAILURE AND SHOCK W MCC",
      "981 - EXTENSIVE O.R. PROCEDURE UNRELATED TO PRINCIPAL DIAGNOSIS W MCC" }
DrgCodeOf(description) == Slice(description, 1, 3)
\* The words a query filters the procedure description with.
FilterWords ==
    {"knee", "joint", "orthopedic", "replacement", "surgery"}
        \cup {MappingKeyword(k) : k \in DOMAIN drg_mappings} \cup DOMAIN medical_terms
ProcedureFilter(query) ==
    {w \in FilterWords : str_contains(query, "p.ms_drg_definition ILIKE '%" \o w \o "%'")}
\* Whether the rows of a query may carry a description.
Admits(query, description) ==
    str_contains(query, "p.ms_drg_definition")
        => \E w \in ProcedureFilter(query) : str_contains(str_lower(description), w)

\* C29: the rows of every fallback query sent are restricted to procedure
\* descriptions related to the procedure the question names: when codes are
\* extracted from the question, a description the query admits has one of
\* them.
C29_FallbackFollowsProcedure ==
    (/\ pc \in {"ask_fallback", "ask_fallback_narrating", "ask_done"}
     /\ Len(db_log) >= 2
     /\ _extract_procedure_info(question) # {}) =>
        \A i \in 1..Len(FallbacksSent) : \A d \in DrgDescriptions :
            Admits(FallbacksSent[i], d) => DrgCodeOf(d) \in _extract_procedure_info(question)

(***************************************************************************)
(* What a fallback query is made of.                                       *)
(***************************************************************************)
Intents == {"cheapest", "best_rated", "nearest", "value"}
\* The fixed text of the ZIP query up to the prefix (lines 225 to 232).
ZipQueryHead ==
    "WHERE (p.ms_drg_definition ILIKE '%knee%' OR p.ms_drg_definition ILIKE '%joint%') AND p.provider_zip_code LIKE '"
\* The procedure query and the city queries: fixed text and a fixed ORDER BY.
FixedFallbacks ==
    {ProcedureFallback(i) : i \in Intents}
        \cup {FallbackQuery("(" \o city_patterns[c] \o ")", i) :
                 c \in DOMAIN city_patterns, i \in Intents}
\* The ZIP query: fixed text, three digits that the question holds, and a
\* fixed ORDER BY.
ZipTemplateWith(query, q) ==
    LET h == Len(ZipQueryHead)
    IN  /\ str_startswith(query, ZipQueryHead)
        /\ IsDecimal(Slice(query, h + 1, h + 3))
        /\ str_contains(q, Slice(query, h + 1, h + 3))
        /\ \E i \in Intents : From(query, h + 4) = "%' " \o base_order(i) \o " LIMIT 5"

\* C30: every fallback query sent is a fixed template with the ORDER BY of an
\* intent, a city condition of the table or three digits read from the
\* question, and nothing else of the question or of a completion; none
\* carries a statement separator or a keyword that writes.
C30_FallbackFromTemplates ==
    \A n \in 1..Len(FallbacksSent) :
        /\ FallbacksSent[n] \in FixedFallbacks \/ ZipTemplateWith(FallbacksSent[n], question)
        /\ ~str_contains(FallbacksSent[n], ";")
        /\ \A k \in dangerous_keywords :
               ~str_contains(FallbacksSent[n], k) /\ ~str_contains(FallbacksSent[n], str_lower(k))

\* A question that carries quotes and a condition of its own after a ZIP
\* code, whose ZIP query was sent.
C30_Witness ==
    /\ pc = "ask_done"
    /\ str_contains(question, "' OR '1'='1")
    /\ Len(FallbacksSent) >= 1
    /\ FallbackKind(FallbacksSent[1]) = "zip"
    /\ response.kind = "fallback_narrated"

====
